---------------------------- MODULE Spec2Model ----------------------------
(***************************************************************************)
(* Model of the text normalization and sanitizing pipeline of specmatch    *)
(* (lib/normalizers, api/match, api/rewrite-resume, api/parse-pdf).        *)
(*                                                                         *)
(* A string is a sequence of Unicode code points (integers), so that the   *)
(* character classes of the regular expressions are sets of integers and  *)
(* each replace / normalize / trim step is computed as the code does it.   *)
(***************************************************************************)
EXTENDS Integers, Sequences, FiniteSets, TLC

VARIABLES
    pc,     \* position of the operation under study
    arg,    \* the value handed to the operation (the raw request data)
    parsed, \* what the schema's safeParse returned for arg
    res,    \* the value the operation returned (a handler's response)
    res2,   \* the value returned when the result is fed to the operation again
    locals, \* a handler's local variables that outlive its try block
    log     \* the calls a handler has made so far, in order

vars == <<pc, arg, parsed, res, res2, locals, log>>

(***************************************************************************)
(* Bounds of the model.                                                    *)
(***************************************************************************)
MaxTextLen == 4

(***************************************************************************)
(* Generic helpers on sequences.                                           *)
(***************************************************************************)
\* All sequences over S of length at most n.
SeqsUpTo(S, n) == UNION {[1..k -> S] : k \in 0..n}

\* String.prototype.slice(0, n) / Array.prototype.slice(0, n).
Take(s, n) == SubSeq(s, 1, IF Len(s) < n THEN Len(s) ELSE n)

Drop(s, n) == SubSeq(s, n + 1, Len(s))

RECURSIVE Flatten(_)
Flatten(ss) ==
    IF ss = <<>> THEN <<>>
    ELSE IF Len(ss) = 1 THEN ss[1]
    ELSE LET half == Len(ss) \div 2
         IN  Flatten(SubSeq(ss, 1, half)) \o Flatten(SubSeq(ss, half + 1, Len(ss)))

(***************************************************************************)
(* Character classes.                                                      *)
(***************************************************************************)
\* What the regular expression class \s and String.prototype.trim treat as
\* white space: TAB, LF, VT, FF, CR, SPACE, NBSP, U+1680, U+2000..U+200A,
\* U+2028, U+2029, U+202F, U+205F, U+3000, U+FEFF.
WhiteSpace == {9, 10, 11, 12, 13, 32, 160, 5760, 8232, 8233, 8239, 8287, 12288, 65279}
                \cup (8192..8202)

\* [•–—│] : bullet, en dash, em dash, box-drawing vertical bar.
AsciiSafeGlyphs == {8226, 8211, 8212, 9474}

\* [\x00-\x7F] : the code points asciiSafe keeps.
AsciiRange == 0..127

\* The printable ASCII range, SPACE..TILDE.
PrintableAscii == 32..126

\* String.prototype.normalize("NFKD") on one code point, for the code points
\* the model draws from: NBSP and IDEOGRAPHIC SPACE decompose to SPACE,
\* e-acute to "e" + COMBINING ACUTE, the ellipsis to "...", the fi ligature
\* to "fi"; every other code point of the model has no decomposition.
NFKD(c) ==
    CASE c = 160   -> <<32>>
      [] c = 12288 -> <<32>>
      [] c = 233   -> <<101, 769>>
      [] c = 8230  -> <<46, 46, 46>>
      [] c = 64257 -> <<102, 105>>
      [] OTHER     -> <<c>>

(***************************************************************************)
(* lib/normalizers: asciiSafe and its steps.                               *)
(***************************************************************************)
\* .replace(/[•–—│]/g, "-")
ReplaceGlyphs(s) == [i \in 1..Len(s) |-> IF s[i] \in AsciiSafeGlyphs THEN 45 ELSE s[i]]

\* .normalize("NFKD")
NormalizeNFKD(s) == Flatten([i \in 1..Len(s) |-> NFKD(s[i])])

\* .replace(/[^\x00-\x7F]/g, "")
StripNonAscii(s) == SelectSeq(s, LAMBDA c : c \in AsciiRange)

\* Length of the maximal white-space run at the head of s.
RECURSIVE WsRun(_)
WsRun(s) == IF s # <<>> /\ Head(s) \in WhiteSpace THEN 1 + WsRun(Tail(s)) ELSE 0

\* .replace(/\s{2,}/g, " ")
RECURSIVE CollapseSpaces(_)
CollapseSpaces(s) ==
    IF s = <<>> THEN <<>>
    ELSE LET n == WsRun(s) IN
         IF n >= 2 THEN <<32>> \o CollapseSpaces(Drop(s, n))
         ELSE <<Head(s)>> \o CollapseSpaces(Tail(s))

RECURSIVE TrimStart(_)
TrimStart(s) == IF s # <<>> /\ Head(s) \in WhiteSpace THEN TrimStart(Tail(s)) ELSE s

RECURSIVE TrimEnd(_)
TrimEnd(s) ==
    IF s # <<>> /\ s[Len(s)] \in WhiteSpace THEN TrimEnd(SubSeq(s, 1, Len(s) - 1)) ELSE s

\* String.prototype.trim
Trim(s) == TrimEnd(TrimStart(s))

\* A plausible slip: trimming before the non-ASCII code points are stripped.
asciiSafeTrimEarly(s) ==
    CollapseSpaces(StripNonAscii(Trim(NormalizeNFKD(ReplaceGlyphs(s)))))

asciiSafe(s) ==
    Trim(CollapseSpaces(StripNonAscii(NormalizeNFKD(ReplaceGlyphs(s)))))

(***************************************************************************)
(* SpecAsciiSafe: asciiSafe applied to a text, then to its own result.     *)
(***************************************************************************)
\* SOH, TAB, SPACE, "a", NBSP, e-acute, bullet, an emoji.
AsciiSafeChars == {1, 9, 32, 97, 160, 233, 8226, 128512}

AsciiSafeInputs == SeqsUpTo(AsciiSafeChars, MaxTextLen)

InitAsciiSafe ==
    /\ pc = "start"
    /\ arg \in AsciiSafeInputs
    /\ parsed = <<>>
    /\ res = <<>>
    /\ res2 = <<>>
    /\ locals = <<>>
    /\ log = <<>>

CallAsciiSafe ==
    /\ pc = "start"
    /\ res' = asciiSafe(arg)
    /\ pc' = "once"
    /\ UNCHANGED <<arg, parsed, res2, locals, log>>

RecallAsciiSafe ==
    /\ pc = "once"
    /\ res2' = asciiSafe(res)
    /\ pc' = "twice"
    /\ UNCHANGED <<arg, parsed, res, locals, log>>

NextAsciiSafe == CallAsciiSafe \/ RecallAsciiSafe

SpecAsciiSafe == InitAsciiSafe /\ [][NextAsciiSafe]_vars

\* Whether s has two adjacent white-space characters.
HasWsRun(s) == \E i \in 1..(Len(s) - 1) : s[i] \in WhiteSpace /\ s[i + 1] \in WhiteSpace

\* C1: asciiSafe is idempotent: applying it to its own result returns that
\* result unchanged, for every input text.
C1_AsciiSafeIdempotent == pc = "twice" => res2 = res

\* C1 witness: a text mixing a glyph or non-ASCII code point with white
\* space that asciiSafe changed, sanitized twice.
C1_Witness ==
    /\ pc = "twice"
    /\ res # arg
    /\ res # <<>>
    /\ \E i \in 1..Len(arg) : arg[i] \notin AsciiRange
    /\ \E i \in 1..Len(arg) : arg[i] \in WhiteSpace

\* C2: every code point of asciiSafe's result is printable ASCII (none above
\* 0x7F, no control character), the result has no run of two or more white
\* space characters and no leading or trailing white space.
C2_AsciiSafePrintable ==
    pc # "start" =>
        /\ \A i \in 1..Len(res) : res[i] \in PrintableAscii
        /\ ~HasWsRun(res)
        /\ Trim(res) = res

(***************************************************************************)
(* lib/normalizers: sanitizeProjectTitle.                                  *)
(***************************************************************************)
\* [-–—|•] : hyphen, en dash, em dash, pipe, bullet.
TitleSeparators == {45, 8211, 8212, 124, 8226}

\* Position of the first ")" of s after position from, or 0.
FirstClose(s, from) ==
    IF \E j \in (from + 1)..Len(s) : s[j] = 41
    THEN CHOOSE j \in (from + 1)..Len(s) :
            s[j] = 41 /\ \A k \in (from + 1)..(j - 1) : s[k] # 41
    ELSE 0

\* s.replace(/\s*\([^)]*\)\s*/g, " ") : at the leftmost position where white
\* space then "(" then a later ")" is found, the match runs to the first ")"
\* and the white space after it; scanning resumes behind the match.
RECURSIVE RemoveParens(_)
RemoveParens(s) ==
    IF s = <<>> THEN <<>>
    ELSE LET w == WsRun(s)
             close == IF w < Len(s) /\ s[w + 1] = 40 THEN FirstClose(s, w + 1) ELSE 0
         IN  IF close > 0
             THEN LET rest == Drop(s, close)
                  IN  <<32>> \o RemoveParens(Drop(rest, WsRun(rest)))
             ELSE <<Head(s)>> \o RemoveParens(Tail(s))

\* Length of the maximal run of separator glyphs of s that starts at i.
RECURSIVE SepRun(_, _)
SepRun(s, i) == IF i <= Len(s) /\ s[i] \in TitleSeparators THEN 1 + SepRun(s, i + 1) ELSE 0

\* withoutParens.replace(/[-–—|•]+/g, callback): a run flush between two
\* non-space characters becomes "-", any other run " - "; the start and the
\* end of the string count as a space.
RECURSIVE NormalizeSeparators(_, _)
NormalizeSeparators(s, i) ==
    IF i > Len(s) THEN <<>>
    ELSE LET n == SepRun(s, i) IN
         IF n = 0 THEN <<s[i]>> \o NormalizeSeparators(s, i + 1)
         ELSE LET prevIsSpace == IF i > 1 THEN s[i - 1] \in WhiteSpace ELSE TRUE
                  nextIsSpace == IF i + n <= Len(s) THEN s[i + n] \in WhiteSpace ELSE TRUE
              IN  (IF ~prevIsSpace /\ ~nextIsSpace THEN <<45>> ELSE <<32, 45, 32>>)
                      \o NormalizeSeparators(s, i + n)

\* A plausible slip: the parenthetical groups are left in.
sanitizeProjectTitleKeepParens(s) == Trim(CollapseSpaces(NormalizeSeparators(s, 1)))

\* A plausible slip: the runs of white space are not collapsed.
sanitizeProjectTitleNoCollapse(s) == Trim(NormalizeSeparators(RemoveParens(s), 1))

sanitizeProjectTitle(s) ==
    Trim(CollapseSpaces(NormalizeSeparators(RemoveParens(s), 1)))

(***************************************************************************)
(* lib/normalizers: trimList, normalizeJobSpec, normalizeCandidateProfile. *)
(***************************************************************************)
\* An absent (undefined) optional string: no string holds the code point -1.
Undefined == << -1 >>

\* x?.trim()
TrimOpt(x) == IF x = Undefined THEN Undefined ELSE Trim(x)

\* x || y on optional strings: undefined and "" are falsy.
OrElse(x, y) == IF x = Undefined \/ x = <<>> THEN y ELSE x

\* Array.from(new Set(values)) : the first occurrence of each value, in order.
RECURSIVE Dedupe(_)
Dedupe(l) ==
    IF l = <<>> THEN <<>>
    ELSE LET d == Dedupe(SubSeq(l, 1, Len(l) - 1))
             x == l[Len(l)]
         IN  IF \E i \in 1..Len(d) : d[i] = x THEN d ELSE Append(d, x)

MapTrim(values) == [i \in 1..Len(values) |-> Trim(values[i])]

\* .filter(Boolean) on strings
FilterNonEmpty(values) == SelectSeq(values, LAMBDA v : v # <<>>)

ToLower(s) == [i \in 1..Len(s) |-> IF s[i] \in 65..90 THEN s[i] + 32 ELSE s[i]]

\* A plausible slip: duplicates decided after case folding.
RECURSIVE DedupeCaseFold(_)
DedupeCaseFold(l) ==
    IF l = <<>> THEN <<>>
    ELSE LET d == DedupeCaseFold(SubSeq(l, 1, Len(l) - 1))
             x == l[Len(l)]
         IN  IF \E i \in 1..Len(d) : ToLower(d[i]) = ToLower(x) THEN d ELSE Append(d, x)

trimListCaseFold(values) == DedupeCaseFold(FilterNonEmpty(MapTrim(values)))

trimList(values) == Dedupe(FilterNonEmpty(MapTrim(values)))

\* "Candidate"
CandidateLiteral == <<67, 97, 110, 100, 105, 100, 97, 116, 101>>

\* "Untitled Project"
UntitledProjectLiteral ==
    <<85, 110, 116, 105, 116, 108, 101, 100, 32, 80, 114, 111, 106, 101, 99, 116>>

normalizeJobSpec(spec) ==
    [spec EXCEPT
        !.title = Trim(spec.title),
        !.responsibilities = trimList(spec.responsibilities),
        !.mustHaves = trimList(spec.mustHaves),
        !.niceToHaves = trimList(spec.niceToHaves),
        !.keywords = trimList(spec.keywords),
        !.location = OrElse(TrimOpt(spec.location), Undefined),
        !.employmentType = OrElse(TrimOpt(spec.employmentType), Undefined)]

normalizeProject(project) ==
    [project EXCEPT
        !.name = sanitizeProjectTitle(OrElse(TrimOpt(project.name), UntitledProjectLiteral)),
        !.summary = OrElse(TrimOpt(project.summary), <<>>),
        !.skills = trimList(project.skills),
        !.outcomes = trimList(project.outcomes)]

normalizeCandidateProfile(profile) ==
    [profile EXCEPT
        !.contact = [profile.contact EXCEPT
            !.name = OrElse(TrimOpt(profile.contact.name), CandidateLiteral),
            !.email = TrimOpt(profile.contact.email),
            !.phone = TrimOpt(profile.contact.phone),
            !.linkedin = TrimOpt(profile.contact.linkedin),
            !.portfolio = TrimOpt(profile.contact.portfolio),
            !.website = TrimOpt(profile.contact.website),
            !.behance = TrimOpt(profile.contact.behance)],
        !.title = TrimOpt(profile.title),
        !.location = TrimOpt(profile.location),
        !.skills = trimList(profile.skills),
        !.tools = trimList(profile.tools),
        !.projects = [i \in 1..Len(profile.projects) |-> normalizeProject(profile.projects[i])],
        !.additionalContext = OrElse(TrimOpt(profile.additionalContext), Undefined)]

(***************************************************************************)
(* types/schemas/core: what JobSpecSchema and CandidateProfileSchema accept *)
(* and what safeParse returns (z.string().trim() trims, min(1) rejects).   *)
(***************************************************************************)
\* String.prototype.split on one character: at least one piece.
RECURSIVE Split(_, _)
Split(s, c) ==
    IF \E i \in 1..Len(s) : s[i] = c
    THEN LET i == CHOOSE k \in 1..Len(s) : s[k] = c /\ \A m \in 1..(k - 1) : s[m] # c
         IN  <<SubSeq(s, 1, i - 1)>> \o Split(Drop(s, i), c)
    ELSE <<s>>

Letters == (65..90) \cup (97..122)

Digits == 48..57

\* z.string().email(): zod's expression
\* /^(?!\.)(?!.*\.\.)([A-Z0-9_'+\-\.]*)[A-Z0-9_+-]@([A-Z0-9][A-Z0-9\-]*\.)+[A-Z]{2,}$/i
IsEmail(e) ==
    LET ats == {i \in 1..Len(e) : e[i] = 64} IN
    /\ Cardinality(ats) = 1
    /\ LET at == CHOOSE i \in ats : TRUE
           local == SubSeq(e, 1, at - 1)
           labels == Split(SubSeq(e, at + 1, Len(e)), 46)
           n == Len(labels)
       IN  /\ local # <<>>
           /\ local[1] # 46
           /\ \A i \in 1..(Len(e) - 1) : ~(e[i] = 46 /\ e[i + 1] = 46)
           /\ \A i \in 1..Len(local) :
                  local[i] \in Letters \cup Digits \cup {95, 39, 43, 45, 46}
           /\ local[Len(local)] \in Letters \cup Digits \cup {95, 43, 45}
           /\ n >= 2
           /\ \A k \in 1..(n - 1) :
                  /\ labels[k] # <<>>
                  /\ labels[k][1] \in Letters \cup Digits
                  /\ \A i \in 1..Len(labels[k]) : labels[k][i] \in Letters \cup Digits \cup {45}
           /\ Len(labels[n]) >= 2
           /\ \A i \in 1..Len(labels[n]) : labels[n][i] \in Letters

\* z.string().url(): new URL(u) does not throw.  Modelled for a scheme
\* followed by ":" and, under http and https, a non-empty host of letters,
\* digits, "." and "-" behind the slashes.
UrlSchemeEnd(u) ==
    LET colons == {i \in 1..Len(u) : u[i] = 58}
    IN  IF colons = {} THEN 0 ELSE CHOOSE i \in colons : \A j \in colons : i <= j

UrlHostStart(u) ==
    LET c == UrlSchemeEnd(u)
        behind == {i \in (c + 1)..Len(u) : u[i] \notin {47, 92}}
    IN  IF behind = {} THEN Len(u) + 1 ELSE CHOOSE i \in behind : \A j \in behind : i <= j

UrlHostEnd(u) ==
    LET h == UrlHostStart(u)
        stops == {i \in h..Len(u) : u[i] \in {47, 92, 63, 35}}
    IN  IF stops = {} THEN Len(u) ELSE (CHOOSE i \in stops : \A j \in stops : i <= j) - 1

IsUrl(u) ==
    LET c == UrlSchemeEnd(u) IN
    /\ c >= 2
    /\ u[1] \in Letters
    /\ \A i \in 2..(c - 1) : u[i] \in Letters \cup Digits \cup {43, 45, 46}
    /\ ToLower(SubSeq(u, 1, c - 1)) \in {<<104, 116, 116, 112>>, <<104, 116, 116, 112, 115>>} =>
           /\ UrlHostEnd(u) >= UrlHostStart(u)
           /\ \A i \in UrlHostStart(u)..UrlHostEnd(u) : u[i] \in Letters \cup Digits \cup {45, 46}

\* "a@b.co" and "http://a": the strings of the model that z.string().email()
\* and z.string().url() accept.
EmailStrings == {<<97, 64, 98, 46, 99, 111>>}

UrlStrings == {<<104, 116, 116, 112, 58, 47, 47, 97>>}

JobSpecSchemaAccepts(raw) == Trim(raw.title) # <<>>

JobSpecSchemaParse(raw) ==
    [raw EXCEPT
        !.title = Trim(raw.title),
        !.responsibilities = MapTrim(raw.responsibilities),
        !.mustHaves = MapTrim(raw.mustHaves),
        !.niceToHaves = MapTrim(raw.niceToHaves),
        !.keywords = MapTrim(raw.keywords)]

CandidateProjectSchemaAccepts(raw) == Trim(raw.name) # <<>> /\ Trim(raw.summary) # <<>>

CandidateProjectSchemaParse(raw) ==
    [raw EXCEPT
        !.name = Trim(raw.name),
        !.summary = Trim(raw.summary),
        !.skills = MapTrim(raw.skills),
        !.outcomes = MapTrim(raw.outcomes)]

ContactSchemaAccepts(raw) ==
    /\ Trim(raw.name) # <<>>
    /\ raw.email = Undefined \/ IsEmail(raw.email)
    /\ \A u \in {raw.linkedin, raw.portfolio, raw.website, raw.behance} :
            u = Undefined \/ IsUrl(u)

CandidateProfileSchemaAccepts(raw) ==
    /\ ContactSchemaAccepts(raw.contact)
    /\ \A i \in 1..Len(raw.projects) : CandidateProjectSchemaAccepts(raw.projects[i])

CandidateProfileSchemaParse(raw) ==
    [raw EXCEPT
        !.contact = [raw.contact EXCEPT !.name = Trim(raw.contact.name)],
        !.skills = MapTrim(raw.skills),
        !.tools = MapTrim(raw.tools),
        !.projects = [i \in 1..Len(raw.projects) |-> CandidateProjectSchemaParse(raw.projects[i])],
        !.additionalContext = TrimOpt(raw.additionalContext)]

(***************************************************************************)
(* SpecNormalize: a raw job specification or candidate profile is parsed   *)
(* by its schema, normalized, and normalized once more.                    *)
(***************************************************************************)
MaxFieldLen == 2
MaxListLen == 3
MaxTitleLen == 3

\* SPACE and "a".
FieldChars == {32, 97}

FieldStrings == SeqsUpTo(FieldChars, MaxFieldLen)

OptionalStrings == FieldStrings \cup {Undefined}

\* "", " ", "Re", "re ", "RE", " Re".
ListElements ==
    {<<>>, <<32>>, <<82, 101>>, <<114, 101, 32>>, <<82, 69>>, <<32, 82, 101>>}

ListInputs == SeqsUpTo(ListElements, MaxListLen)

\* SPACE, "(", ")", "-", "a".
TitleChars == {32, 40, 41, 45, 97}

TitleStrings == SeqsUpTo(TitleChars, MaxTitleLen)

Reverse(l) == [i \in 1..Len(l) |-> l[Len(l) + 1 - i]]

MkContact(name, email, phone, url) ==
    [name |-> name, email |-> email, phone |-> phone, linkedin |-> url,
     portfolio |-> url, website |-> url, behance |-> url]

MkProject(name, summary, list) ==
    [name |-> name, summary |-> summary, skills |-> list, outcomes |-> Reverse(list)]

MkProfile(contact, title, location, context, list, projects) ==
    [contact |-> contact, title |-> title, years |-> Undefined, location |-> location,
     skills |-> list, tools |-> Reverse(list), projects |-> projects,
     additionalContext |-> context]

MkJobSpec(title, location, employmentType, list) ==
    [title |-> title, responsibilities |-> list, mustHaves |-> Reverse(list),
     niceToHaves |-> list, keywords |-> list, location |-> location,
     employmentType |-> employmentType]

\* "a b"
SampleSummary == <<97, 32, 98>>

SampleProject == MkProject(<<97>>, SampleSummary, <<>>)

\* Raw candidate profiles: one family varies the string fields, one the list
\* fields, one the projects.
ProfileInputs ==
    {MkProfile(MkContact(n, IF u = Undefined THEN Undefined ELSE <<97, 64, 98, 46, 99, 111>>, o1, u),
               o1, o2, o2, <<>>, <<>>) :
        n \in FieldStrings, o1 \in OptionalStrings, o2 \in OptionalStrings,
        u \in UrlStrings \cup {Undefined}}
    \cup
    {MkProfile(MkContact(<<97>>, Undefined, Undefined, Undefined), Undefined, Undefined,
               Undefined, l, <<MkProject(<<97>>, SampleSummary, l)>>) : l \in ListInputs}
    \cup
    {MkProfile(MkContact(<<97>>, Undefined, Undefined, Undefined), Undefined, Undefined,
               Undefined, <<>>, <<MkProject(t, sm, <<>>)>> \o tail) :
        t \in TitleStrings, sm \in {<<>>, <<97>>, <<32, 97>>},
        tail \in {<<>>, <<SampleProject>>}}

JobSpecInputs ==
    {MkJobSpec(t, o1, o2, <<>>) :
        t \in FieldStrings, o1 \in OptionalStrings, o2 \in OptionalStrings}
    \cup
    {MkJobSpec(<<97>>, Undefined, Undefined, l) : l \in ListInputs}

InitNormalize ==
    /\ pc = "start"
    /\ \/ \E p \in ProfileInputs : arg = [kind |-> "profile", data |-> p]
       \/ \E j \in JobSpecInputs : arg = [kind |-> "job", data |-> j]
    /\ parsed = <<>>
    /\ res = <<>>
    /\ res2 = <<>>
    /\ locals = <<>>
    /\ log = <<>>

SchemaAccepts(input) ==
    IF input.kind = "profile" THEN CandidateProfileSchemaAccepts(input.data)
    ELSE JobSpecSchemaAccepts(input.data)

\* safeParse succeeded: the handler goes on with payloadResult.data.
ParseInput ==
    /\ pc = "start"
    /\ SchemaAccepts(arg)
    /\ parsed' = IF arg.kind = "profile" THEN CandidateProfileSchemaParse(arg.data)
                 ELSE JobSpecSchemaParse(arg.data)
    /\ pc' = "parsed"
    /\ UNCHANGED <<arg, res, res2, locals, log>>

\* safeParse failed: the handler answers with the validation error.
RejectInput ==
    /\ pc = "start"
    /\ ~SchemaAccepts(arg)
    /\ pc' = "rejected"
    /\ UNCHANGED <<arg, parsed, res, res2, locals, log>>

NormalizeProfile ==
    /\ pc = "parsed"
    /\ arg.kind = "profile"
    /\ res' = normalizeCandidateProfile(parsed)
    /\ pc' = "normalized"
    /\ UNCHANGED <<arg, parsed, res2, locals, log>>

NormalizeJob ==
    /\ pc = "parsed"
    /\ arg.kind = "job"
    /\ res' = normalizeJobSpec(parsed)
    /\ pc' = "normalized"
    /\ UNCHANGED <<arg, parsed, res2, locals, log>>

RenormalizeProfile ==
    /\ pc = "normalized"
    /\ arg.kind = "profile"
    /\ res2' = normalizeCandidateProfile(res)
    /\ pc' = "renormalized"
    /\ UNCHANGED <<arg, parsed, res, locals, log>>

RenormalizeJob ==
    /\ pc = "normalized"
    /\ arg.kind = "job"
    /\ res2' = normalizeJobSpec(res)
    /\ pc' = "renormalized"
    /\ UNCHANGED <<arg, parsed, res, locals, log>>

NextNormalize ==
    \/ ParseInput
    \/ RejectInput
    \/ NormalizeProfile
    \/ NormalizeJob
    \/ RenormalizeProfile
    \/ RenormalizeJob

SpecNormalize == InitNormalize /\ [][NextNormalize]_vars

Normalized == pc \in {"normalized", "renormalized"}

\* C3: normalizeCandidateProfile is idempotent: normalizing the normalized
\* profile of a schema-valid profile returns an equal profile.
C3_NormalizeProfileIdempotent ==
    (pc = "renormalized" /\ arg.kind = "profile") => res2 = res

Blank(s) == Trim(s) = <<>>

\* C4: after normalizeCandidateProfile the contact name, every project name
\* and every project summary are non-blank.
C4_RequiredFieldsNotBlank ==
    (Normalized /\ arg.kind = "profile") =>
        /\ ~Blank(res.contact.name)
        /\ \A i \in 1..Len(res.projects) :
                ~Blank(res.projects[i].name) /\ ~Blank(res.projects[i].summary)

AbsentOrNotBlank(x) == x = Undefined \/ ~Blank(x)

\* C5: after normalization no optional string field holds an empty or
\* white-space-only string: each is absent or non-blank.
C5_BlankOptionalsAbsent ==
    Normalized =>
        IF arg.kind = "job"
        THEN AbsentOrNotBlank(res.location) /\ AbsentOrNotBlank(res.employmentType)
        ELSE /\ \A x \in {res.title, res.location, res.additionalContext} : AbsentOrNotBlank(x)
             /\ \A x \in {res.contact.email, res.contact.phone, res.contact.linkedin,
                          res.contact.portfolio, res.contact.website, res.contact.behance} :
                    AbsentOrNotBlank(x)

\* Index of the first element of list in whose trimmed form is v.
FirstIndex(in, v) == CHOOSE k \in 1..Len(in) : Trim(in[k]) = v /\ \A m \in 1..(k - 1) : Trim(in[m]) # v

\* out holds exactly the distinct non-empty trimmed strings of in, each once,
\* in the order of their first occurrence in in (exact, case-sensitive).
ListNormalized(in, out) ==
    /\ \A i \in 1..Len(out) : out[i] # <<>> /\ Trim(out[i]) = out[i]
    /\ \A i, j \in 1..Len(out) : i # j => out[i] # out[j]
    /\ {out[i] : i \in 1..Len(out)} = {Trim(in[k]) : k \in 1..Len(in)} \ {<<>>}
    /\ \A i, j \in 1..Len(out) : i < j => FirstIndex(in, out[i]) < FirstIndex(in, out[j])

\* C6: every list field of a normalized job specification or candidate
\* profile holds only trimmed non-empty strings without duplicates, in the
\* order of first occurrence in the input; duplicates are decided by exact,
\* case-sensitive equality of the trimmed strings, so that
\* ["Re", "re ", "RE"] normalizes to ["Re", "re", "RE"].
C6_ListFieldsNormalized ==
    Normalized =>
        IF arg.kind = "job"
        THEN /\ ListNormalized(arg.data.responsibilities, res.responsibilities)
             /\ ListNormalized(arg.data.mustHaves, res.mustHaves)
             /\ ListNormalized(arg.data.niceToHaves, res.niceToHaves)
             /\ ListNormalized(arg.data.keywords, res.keywords)
        ELSE /\ ListNormalized(arg.data.skills, res.skills)
             /\ ListNormalized(arg.data.tools, res.tools)
             /\ Len(res.projects) = Len(arg.data.projects)
             /\ \A i \in 1..Len(res.projects) :
                    /\ ListNormalized(arg.data.projects[i].skills, res.projects[i].skills)
                    /\ ListNormalized(arg.data.projects[i].outcomes, res.projects[i].outcomes)
             /\ (arg.data.skills = <<<<82, 101>>, <<114, 101, 32>>, <<82, 69>>>>
                    => res.skills = <<<<82, 101>>, <<114, 101>>, <<82, 69>>>>)

\* C6 witness: the profile whose skills are ["Re", "re ", "RE"] was
\* normalized and kept three values.
C6_Witness ==
    /\ pc = "normalized"
    /\ arg.kind = "profile"
    /\ arg.data.skills = <<<<82, 101>>, <<114, 101, 32>>, <<82, 69>>>>
    /\ Len(res.skills) = 3
    /\ Len(res.projects) = 1
    /\ Len(res.projects[1].outcomes) = 3

(***************************************************************************)
(* SpecHandlers: one request to api/match, api/rewrite-resume or           *)
(* api/parse-pdf.  The request body, the presence of OPENAI_API_KEY and    *)
(* what the narrative collaborator (the OpenAI completion) does are the    *)
(* inputs; a handler runs from one await to the next in one step.          *)
(***************************************************************************)
\* What the body turns out to be.  match and rewrite-resume: "notJson"
\* (req.json() rejected, or a falsy JSON value), "badPayload" (JSON that the
\* payload schema rejects), "invalidJob" / "invalidProfile" / "invalidBoth"
\* (match only: JobSpecSchema or CandidateProfileSchema rejects its part),
\* "valid".  parse-pdf: "noFile", "extractFails" (the PDF text extractor
\* throws), "noText" (no extractable text), "heuristicThrows" (the heuristic
\* profile fails CandidateProfileSchema.parse), "valid".
MatchBodies == {"notJson", "badPayload", "invalidJob", "invalidProfile", "invalidBoth", "valid"}

RewriteBodies == {"notJson", "badPayload", "valid"}

ParsePdfBodies == {"noFile", "extractFails", "noText", "heuristicThrows", "valid"}

\* What the collaborator does when called: it returns conforming JSON, it
\* throws or times out, it returns no content, text that is not JSON, or
\* JSON that the expected schema rejects.
CollaboratorOutcomes == {"ok", "throws", "noContent", "notJson", "nonConforming"}

Requests ==
    [handler : {"match"}, body : MatchBodies, apiKey : BOOLEAN, collaborator : CollaboratorOutcomes]
    \cup
    [handler : {"rewrite"}, body : RewriteBodies, apiKey : BOOLEAN, collaborator : CollaboratorOutcomes]
    \cup
    [handler : {"parsePdf"}, body : ParsePdfBodies, apiKey : BOOLEAN, collaborator : CollaboratorOutcomes]

NoResponse == [status |-> 0, kind |-> "none", details |-> FALSE]

\* NextResponse.json(...): the status, what the body carries, and whether it
\* has a "details" member.
Response(status, kind, details) == [status |-> status, kind |-> kind, details |-> details]

InitHandlers ==
    /\ pc = "start"
    /\ arg \in Requests
    /\ parsed = <<>>
    /\ res = NoResponse
    /\ res2 = <<>>
    /\ locals = [normalizedJob |-> FALSE, normalizedProfile |-> FALSE]
    /\ log = <<>>

Respond(response) ==
    /\ res' = response
    /\ pc' = "done"

\* ----- api/match ---------------------------------------------------------
\* A plausible slip: rejecting only when both parts fail (&& for ||).
MatchSchemaRejectsBoth(body) == body = "invalidBoth"

\* !jobSpecResult.success || !profileResult.success
MatchSchemaRejects(body) == body \in {"invalidJob", "invalidProfile", "invalidBoth"}

\* if (!json) return 400
MatchRejectJson ==
    /\ pc = "start" /\ arg.handler = "match"
    /\ arg.body = "notJson"
    /\ Respond(Response(400, "invalidJson", FALSE))
    /\ UNCHANGED <<arg, parsed, res2, locals, log>>

\* if (!payloadResult.success) return 400 with details
MatchRejectPayload ==
    /\ pc = "start" /\ arg.handler = "match"
    /\ arg.body = "badPayload"
    /\ Respond(Response(400, "validationError", TRUE))
    /\ UNCHANGED <<arg, parsed, res2, locals, log>>

\* if (!jobSpecResult.success || !profileResult.success) return 422 with details
MatchRejectSchema ==
    /\ pc = "start" /\ arg.handler = "match"
    /\ arg.body \notin {"notJson", "badPayload"}
    /\ MatchSchemaRejects(arg.body)
    /\ Respond(Response(422, "validationError", TRUE))
    /\ UNCHANGED <<arg, parsed, res2, locals, log>>

MatchNormalized ==
    /\ locals' = [normalizedJob |-> TRUE, normalizedProfile |-> TRUE]
    /\ parsed' = arg.body

\* Valid input, no API key: normalize, then return buildMockResponse.
MatchNoKey ==
    /\ pc = "start" /\ arg.handler = "match"
    /\ arg.body \notin {"notJson", "badPayload"}
    /\ ~MatchSchemaRejects(arg.body)
    /\ ~arg.apiKey
    /\ MatchNormalized
    /\ log' = log \o <<"normalizeJobSpec", "normalizeCandidateProfile", "fallback">>
    /\ Respond(Response(200, "mockMatch", FALSE))
    /\ UNCHANGED <<arg, res2>>

\* Valid input, API key set: normalize, then await the completion.
MatchCallCollaborator ==
    /\ pc = "start" /\ arg.handler = "match"
    /\ arg.body \notin {"notJson", "badPayload"}
    /\ ~MatchSchemaRejects(arg.body)
    /\ arg.apiKey
    /\ MatchNormalized
    /\ log' = log \o <<"normalizeJobSpec", "normalizeCandidateProfile", "collaborator">>
    /\ pc' = "awaitCollaborator"
    /\ UNCHANGED <<arg, res, res2>>

\* The completion conforms: the blended MatchOutput.
MatchRespondBlended ==
    /\ pc = "awaitCollaborator" /\ arg.handler = "match"
    /\ arg.collaborator = "ok"
    /\ Respond(Response(200, "blendedMatch", FALSE))
    /\ UNCHANGED <<arg, parsed, res2, locals, log>>

\* A plausible slip: the catch block asks the collaborator once more before
\* it falls back.
MatchCatchRetrying ==
    /\ pc = "awaitCollaborator" /\ arg.handler = "match"
    /\ arg.collaborator # "ok"
    /\ log' = log \o <<"collaborator", "fallback">>
    /\ Respond(Response(200, "mockMatch", FALSE))
    /\ UNCHANGED <<arg, parsed, res2, locals>>

\* catch: buildMockResponse when both were normalized, else 500.
MatchCatch ==
    /\ pc = "awaitCollaborator" /\ arg.handler = "match"
    /\ arg.collaborator # "ok"
    /\ IF locals.normalizedJob /\ locals.normalizedProfile
       THEN /\ log' = Append(log, "fallback")
            /\ Respond(Response(200, "mockMatch", FALSE))
       ELSE /\ log' = log
            /\ Respond(Response(500, "error", TRUE))
    /\ UNCHANGED <<arg, parsed, res2, locals>>

\* ----- api/rewrite-resume ------------------------------------------------
RewriteRejectJson ==
    /\ pc = "start" /\ arg.handler = "rewrite"
    /\ arg.body = "notJson"
    /\ Respond(Response(400, "invalidJson", FALSE))
    /\ UNCHANGED <<arg, parsed, res2, locals, log>>

\* if (!payloadResult.success) return 422 with details
RewriteRejectPayload ==
    /\ pc = "start" /\ arg.handler = "rewrite"
    /\ arg.body = "badPayload"
    /\ Respond(Response(422, "validationError", TRUE))
    /\ UNCHANGED <<arg, parsed, res2, locals, log>>

\* Valid input, no API key: normalize, then return buildFallbackResume.
RewriteNoKey ==
    /\ pc = "start" /\ arg.handler = "rewrite"
    /\ arg.body = "valid"
    /\ ~arg.apiKey
    /\ parsed' = arg.body
    /\ log' = log \o <<"normalizeCandidateProfile", "normalizeJobSpec", "fallback">>
    /\ Respond(Response(200, "fallbackResume", FALSE))
    /\ UNCHANGED <<arg, res2, locals>>

RewriteCallCollaborator ==
    /\ pc = "start" /\ arg.handler = "rewrite"
    /\ arg.body = "valid"
    /\ arg.apiKey
    /\ parsed' = arg.body
    /\ log' = log \o <<"normalizeCandidateProfile", "normalizeJobSpec", "collaborator">>
    /\ pc' = "awaitCollaborator"
    /\ UNCHANGED <<arg, res, res2, locals>>

\* The completion conforms: the sanitized rewrite.
RewriteRespondSanitized ==
    /\ pc = "awaitCollaborator" /\ arg.handler = "rewrite"
    /\ arg.collaborator = "ok"
    /\ Respond(Response(200, "sanitizedRewrite", FALSE))
    /\ UNCHANGED <<arg, parsed, res2, locals, log>>

\* catch: 500 "Failed to improve resume." with details.
RewriteCatch ==
    /\ pc = "awaitCollaborator" /\ arg.handler = "rewrite"
    /\ arg.collaborator # "ok"
    /\ Respond(Response(500, "error", TRUE))
    /\ UNCHANGED <<arg, parsed, res2, locals, log>>

\* ----- api/parse-pdf -----------------------------------------------------
ParsePdfNoFile ==
    /\ pc = "start" /\ arg.handler = "parsePdf"
    /\ arg.body = "noFile"
    /\ Respond(Response(400, "noFile", FALSE))
    /\ UNCHANGED <<arg, parsed, res2, locals, log>>

\* runPdfTextExtract or JSON.parse of its output throws: catch, 500.
ParsePdfExtractFails ==
    /\ pc = "start" /\ arg.handler = "parsePdf"
    /\ arg.body = "extractFails"
    /\ Respond(Response(500, "error", TRUE))
    /\ UNCHANGED <<arg, parsed, res2, locals, log>>

ParsePdfNoText ==
    /\ pc = "start" /\ arg.handler = "parsePdf"
    /\ arg.body = "noText"
    /\ Respond(Response(422, "noText", FALSE))
    /\ UNCHANGED <<arg, parsed, res2, locals, log>>

\* buildCandidateProfile calls buildFallbackProfile before its try block:
\* when CandidateProfileSchema.parse throws there, POST's catch answers 500.
ParsePdfHeuristicThrows ==
    /\ pc = "start" /\ arg.handler = "parsePdf"
    /\ arg.body = "heuristicThrows"
    /\ log' = Append(log, "heuristic")
    /\ Respond(Response(500, "error", TRUE))
    /\ UNCHANGED <<arg, parsed, res2, locals>>

\* No API key: the heuristic profile is the answer.
ParsePdfNoKey ==
    /\ pc = "start" /\ arg.handler = "parsePdf"
    /\ arg.body = "valid"
    /\ ~arg.apiKey
    /\ log' = log \o <<"heuristic", "normalizeCandidateProfile", "fallback">>
    /\ Respond(Response(200, "heuristicProfile", FALSE))
    /\ UNCHANGED <<arg, parsed, res2, locals>>

ParsePdfCallCollaborator ==
    /\ pc = "start" /\ arg.handler = "parsePdf"
    /\ arg.body = "valid"
    /\ arg.apiKey
    /\ log' = log \o <<"heuristic", "normalizeCandidateProfile", "collaborator">>
    /\ pc' = "awaitCollaborator"
    /\ UNCHANGED <<arg, parsed, res, res2, locals>>

\* The completion conforms: the normalized structured profile.
ParsePdfRespondStructured ==
    /\ pc = "awaitCollaborator" /\ arg.handler = "parsePdf"
    /\ arg.collaborator = "ok"
    /\ log' = Append(log, "normalizeCandidateProfile")
    /\ Respond(Response(200, "structuredProfile", FALSE))
    /\ UNCHANGED <<arg, parsed, res2, locals>>

\* buildCandidateProfile's catch: return fallbackProfile.
ParsePdfCatch ==
    /\ pc = "awaitCollaborator" /\ arg.handler = "parsePdf"
    /\ arg.collaborator # "ok"
    /\ log' = Append(log, "fallback")
    /\ Respond(Response(200, "heuristicProfile", FALSE))
    /\ UNCHANGED <<arg, parsed, res2, locals>>

NextHandlers ==
    \/ MatchRejectJson
    \/ MatchRejectPayload
    \/ MatchRejectSchema
    \/ MatchNoKey
    \/ MatchCallCollaborator
    \/ MatchRespondBlended
    \/ MatchCatch
    \/ RewriteRejectJson
    \/ RewriteRejectPayload
    \/ RewriteNoKey
    \/ RewriteCallCollaborator
    \/ RewriteRespondSanitized
    \/ RewriteCatch
    \/ ParsePdfNoFile
    \/ ParsePdfExtractFails
    \/ ParsePdfNoText
    \/ ParsePdfHeuristicThrows
    \/ ParsePdfNoKey
    \/ ParsePdfCallCollaborator
    \/ ParsePdfRespondStructured
    \/ ParsePdfCatch

SpecHandlers == InitHandlers /\ [][NextHandlers]_vars

Logged(event) == \E i \in 1..Len(log) : log[i] = event

FallbackKinds == {"mockMatch", "fallbackResume", "heuristicProfile"}

\* C7: a failure of the narrative collaborator is absorbed: the match,
\* rewrite-resume and parse-pdf handlers each answer a request whose
\* collaborator call failed with a success response that carries the
\* deterministic fallback output, never with an error response.
C7_CollaboratorFailureAbsorbed ==
    (pc = "done" /\ Logged("collaborator") /\ arg.collaborator # "ok") =>
        res.status = 200 /\ res.kind \in FallbackKinds

SchemaInvalidBodies == {"badPayload", "invalidJob", "invalidProfile", "invalidBoth"}

\* C8: when the structured input fails schema validation, the match and
\* rewrite-resume handlers answer with a validation error carrying details,
\* and neither normalizer nor the collaborator has been called: an input
\* that failed validation never reaches them.
C8_RejectBeforeNormalization ==
    (arg.handler \in {"match", "rewrite"} /\ arg.body \in SchemaInvalidBodies) =>
        /\ ~Logged("normalizeJobSpec")
        /\ ~Logged("normalizeCandidateProfile")
        /\ ~Logged("collaborator")
        /\ (pc = "done" =>
                /\ res.kind = "validationError"
                /\ res.status \in {400, 422}
                /\ res.details)

\* C8 witness: a match request whose candidate profile fails its schema was
\* answered 422 with details.
C8_Witness ==
    /\ pc = "done"
    /\ arg.handler = "match"
    /\ arg.body = "invalidProfile"
    /\ res = Response(422, "validationError", TRUE)
    /\ log = <<>>

\* The handlers are async functions that run to their next await or return
\* whenever they are scheduled, and an awaited completion settles (it
\* resolves or rejects): weak fairness of every step.
SpecHandlersLive == InitHandlers /\ [][NextHandlers]_vars /\ WF_vars(NextHandlers)

CountLogged(event) == Cardinality({i \in 1..Len(log) : log[i] = event})

\* C22: in every execution of a match, rewrite-resume or parse-pdf request
\* the collaborator is called at most once and the deterministic fallback
\* is substituted at most once; a response is sent only by the step that
\* ends the request, nothing happens after it, and every request does end
\* with a response.
C22_OneCallOneFallbackOneResponse ==
    /\ [](CountLogged("collaborator") <= 1 /\ CountLogged("fallback") <= 1)
    /\ [](res # NoResponse <=> pc = "done")
    /\ [][pc # "done" /\ res = NoResponse]_vars
    /\ <>(pc = "done" /\ res # NoResponse)

\* C22 witness: a match request whose single collaborator call failed was
\* answered once, with the fallback substituted once.
C22_Witness ==
    /\ pc = "done"
    /\ arg.handler = "match"
    /\ arg.collaborator = "throws"
    /\ log = <<"normalizeJobSpec", "normalizeCandidateProfile", "collaborator", "fallback">>
    /\ res = Response(200, "mockMatch", FALSE)

\* C23: in a parse-pdf request with extractable text, when the structured
\* extraction collaborator is available and returns a conforming profile the
\* response is that normalized profile, whatever the heuristic parser
\* produces and whether or not it fails.
C23_HeuristicOnlyAsFallback ==
    (/\ pc = "done"
     /\ arg.handler = "parsePdf"
     /\ arg.body \in {"valid", "heuristicThrows"}
     /\ arg.apiKey
     /\ arg.collaborator = "ok") =>
        res = Response(200, "structuredProfile", FALSE)

(***************************************************************************)
(* lib/normalizers: dedupeLines, stripNameFromSummary.                     *)
(***************************************************************************)
\* s.split(/\r?\n/): a CR right before the LF belongs to the separator.
SplitLines(s) ==
    LET pieces == Split(s, 10)
    IN  [i \in 1..Len(pieces) |->
            IF i < Len(pieces) /\ pieces[i] # <<>> /\ pieces[i][Len(pieces[i])] = 13
            THEN SubSeq(pieces[i], 1, Len(pieces[i]) - 1)
            ELSE pieces[i]]

\* Array.prototype.join
RECURSIVE Join(_, _)
Join(list, sep) ==
    IF list = <<>> THEN <<>>
    ELSE IF Len(list) = 1 THEN list[1]
    ELSE list[1] \o sep \o Join(Tail(list), sep)

\* A plausible slip: duplicates are dropped before the lines are trimmed.
dedupeLinesBeforeTrim(s) == Join(FilterNonEmpty(MapTrim(Dedupe(SplitLines(s)))), <<10>>)

dedupeLines(s) == Join(Dedupe(FilterNonEmpty(MapTrim(SplitLines(s)))), <<10>>)

\* \w of a regular expression without the u flag.
IsWordChar(c) == c \in (48..57) \cup (65..90) \cup {95} \cup (97..122)

\* \b at the gap in front of position i of s (i in 1..Len(s)+1).
WordBoundary(s, i) ==
    (i > 1 /\ IsWordChar(s[i - 1])) # (i <= Len(s) /\ IsWordChar(s[i]))

\* The words of a trimmed name: fullName.trim() cut at its \s+ runs.
RECURSIVE NameWords(_)
NameWords(n) ==
    IF n = <<>> THEN <<>>
    ELSE IF \E i \in 1..Len(n) : n[i] \in WhiteSpace
    THEN LET i == CHOOSE k \in 1..Len(n) :
                    n[k] \in WhiteSpace /\ \A m \in 1..(k - 1) : n[m] \notin WhiteSpace
             rest == Drop(n, i - 1)
         IN  <<SubSeq(n, 1, i - 1)>> \o NameWords(Drop(rest, WsRun(rest)))
    ELSE <<n>>

\* Whether word w stands at position i of s, ignoring case (the "i" flag).
MatchWord(s, i, w) ==
    /\ i + Len(w) - 1 <= Len(s)
    /\ ToLower(SubSeq(s, i, i + Len(w) - 1)) = ToLower(w)

\* The position behind a match of word \s+ word ... \s+ word that starts at
\* position i of s, or 0 when there is none.  The words hold letters only,
\* so each is matched literally.
RECURSIVE MatchName(_, _, _)
MatchName(s, i, words) ==
    IF ~MatchWord(s, i, Head(words)) THEN 0
    ELSE LET j == i + Len(Head(words))
         IN  IF Len(words) = 1 THEN j
             ELSE LET ws == WsRun(Drop(s, j - 1))
                  IN  IF ws = 0 THEN 0 ELSE MatchName(s, j + ws, Tail(words))

\* Whether new RegExp(`\\b${n}\\b`, "i") matches s from position i on.
NameMatchesAt(s, i, words) ==
    /\ WordBoundary(s, i)
    /\ MatchName(s, i, words) > 0
    /\ WordBoundary(s, MatchName(s, i, words))

stripNameFromSummary(summary, fullName) ==
    LET words == NameWords(Trim(fullName))
    IN  IF words = <<>> THEN Trim(summary)
        ELSE IF \E i \in 1..Len(summary) : NameMatchesAt(summary, i, words)
        THEN LET i == CHOOSE k \in 1..Len(summary) :
                        /\ NameMatchesAt(summary, k, words)
                        /\ \A m \in 1..(k - 1) : ~NameMatchesAt(summary, m, words)
                 e == MatchName(summary, i, words)
             IN  Trim(CollapseSpaces(SubSeq(summary, 1, i - 1) \o Drop(summary, e - 1)))
        ELSE Trim(CollapseSpaces(summary))

(***************************************************************************)
(* api/rewrite-resume: sanitizeBulletArray, sanitizeRewritePayload,        *)
(* buildFallbackResume.                                                    *)
(***************************************************************************)
\* An optional array: absent, or present with its items.
None == [present |-> FALSE, items |-> <<>>]

Some(items) == [present |-> TRUE, items |-> items]

\* x ?? []
OrEmpty(x) == IF x.present THEN x.items ELSE <<>>

\* x ? asciiSafe(x) : undefined
AsciiSafeIfTruthy(x) == IF x = Undefined \/ x = <<>> THEN Undefined ELSE asciiSafe(x)

\* dedupeLines(text).split("\n").map((line) => asciiSafe(line)).filter(Boolean)
SanitizedLines(text) ==
    LET lines == Split(dedupeLines(text), 10)
    IN  FilterNonEmpty([i \in 1..Len(lines) |-> asciiSafe(lines[i])])

\* A plausible slip: the cap is not applied.
sanitizeBulletArrayUncapped(items, limit) == SanitizedLines(Join(items, <<10>>))

sanitizeBulletArray(items, limit) == Take(SanitizedLines(Join(items, <<10>>)), limit)

sanitizeRewritePayload(payload, targetRole, candidateName) ==
    [contact |->
        [name |-> asciiSafe(OrElse(payload.contact.name, OrElse(candidateName, CandidateLiteral))),
         email |-> TrimOpt(payload.contact.email),
         phone |-> TrimOpt(payload.contact.phone),
         linkedin |-> TrimOpt(payload.contact.linkedin),
         website |-> TrimOpt(payload.contact.website),
         behance |-> TrimOpt(payload.contact.behance),
         location |-> AsciiSafeIfTruthy(payload.contact.location)],
     headline |-> asciiSafe(targetRole),
     summary |-> asciiSafe(stripNameFromSummary(payload.summary, candidateName)),
     skills |->
        LET raw == OrEmpty(payload.skills)
        IN  Dedupe(FilterNonEmpty([i \in 1..Len(raw) |-> asciiSafe(raw[i])])),
     experience |->
        LET entries == OrEmpty(payload.experience)
        IN  [i \in 1..Len(entries) |->
                [company |-> asciiSafe(sanitizeProjectTitle(entries[i].company)),
                 role |-> asciiSafe(OrElse(entries[i].role, targetRole)),
                 dates |-> AsciiSafeIfTruthy(entries[i].dates),
                 bullets |-> sanitizeBulletArray(OrEmpty(entries[i].bullets), 3)]],
     projects |->
        IF payload.projects.present
        THEN Some([i \in 1..Len(payload.projects.items) |->
                [title |-> asciiSafe(sanitizeProjectTitle(payload.projects.items[i].title)),
                 bullets |-> sanitizeBulletArray(OrEmpty(payload.projects.items[i].bullets), 2)]])
        ELSE None,
     education |->
        IF payload.education.present
        THEN Some([i \in 1..Len(payload.education.items) |->
                [school |-> asciiSafe(payload.education.items[i].school),
                 degree |-> AsciiSafeIfTruthy(payload.education.items[i].degree),
                 dates |-> AsciiSafeIfTruthy(payload.education.items[i].dates)]])
        ELSE None]

\* "Strengths: ", "Focus Areas: ", "Target Role"
StrengthsLiteral == <<83, 116, 114, 101, 110, 103, 116, 104, 115, 58, 32>>

FocusAreasLiteral == <<70, 111, 99, 117, 115, 32, 65, 114, 101, 97, 115, 58, 32>>

TargetRoleLiteral == <<84, 97, 114, 103, 101, 116, 32, 82, 111, 108, 101>>

\* x ?? y on optional strings
Coalesce(x, y) == IF x = Undefined THEN y ELSE x

\* [additionalContext?.trim(), highlights..., gaps...].filter(Boolean)
FallbackSummaryParts(profile, highlights, gaps) ==
    (IF OrElse(TrimOpt(profile.additionalContext), <<>>) # <<>>
     THEN <<TrimOpt(profile.additionalContext)>> ELSE <<>>)
    \o (IF Len(highlights) > 0 THEN <<StrengthsLiteral \o Join(highlights, <<44, 32>>)>> ELSE <<>>)
    \o (IF Len(gaps) > 0 THEN <<FocusAreasLiteral \o Join(gaps, <<44, 32>>)>> ELSE <<>>)

buildFallbackResume(profile, targetRole, highlights, gaps) ==
    LET summaryParts == FallbackSummaryParts(profile, highlights, gaps)
        allSkills == profile.skills \o profile.tools
        combinedSkills == Dedupe([i \in 1..Len(allSkills) |-> asciiSafe(allSkills[i])])
        context == Coalesce(profile.additionalContext, <<>>)
        firstTwo == Take(profile.projects, 2)
        experienceEntries ==
            [i \in 1..Len(firstTwo) |->
                [company |-> asciiSafe(sanitizeProjectTitle(firstTwo[i].name)),
                 role |-> targetRole,
                 dates |-> Undefined,
                 bullets |-> Take(SanitizedLines(Join(FilterNonEmpty(
                                <<firstTwo[i].summary>> \o firstTwo[i].outcomes \o <<context>>),
                                <<10>>)), 3)]]
        projectEntries ==
            [i \in 1..Len(profile.projects) |->
                [title |-> asciiSafe(sanitizeProjectTitle(profile.projects[i].name)),
                 bullets |-> Take(SanitizedLines(Join(FilterNonEmpty(
                                <<profile.projects[i].summary>> \o profile.projects[i].outcomes),
                                <<10>>)), 2)]]
    IN  [contact |->
            [name |-> profile.contact.name,
             email |-> profile.contact.email,
             phone |-> profile.contact.phone,
             linkedin |-> profile.contact.linkedin,
             website |-> Coalesce(profile.contact.website, profile.contact.portfolio),
             behance |-> profile.contact.behance,
             location |-> AsciiSafeIfTruthy(profile.location)],
         headline |-> targetRole,
         summary |->
            IF Len(summaryParts) > 0
            THEN asciiSafe(stripNameFromSummary(Join(summaryParts, <<46, 32>>), profile.contact.name))
            ELSE asciiSafe(targetRole),
         skills |-> FilterNonEmpty(combinedSkills),
         experience |-> experienceEntries,
         projects |-> IF Len(projectEntries) > 0 THEN Some(projectEntries) ELSE None,
         education |-> None]

(***************************************************************************)
(* types/schemas/rewrite: what RewriteResumeSchema.parse returns for the   *)
(* collaborator's JSON (every string is trimmed, none has a minimum).      *)
(***************************************************************************)
RewriteContactSchemaParse(raw) ==
    [name |-> Trim(raw.name), email |-> TrimOpt(raw.email), phone |-> TrimOpt(raw.phone),
     linkedin |-> TrimOpt(raw.linkedin), website |-> TrimOpt(raw.website),
     behance |-> TrimOpt(raw.behance), location |-> TrimOpt(raw.location)]

OptMapTrim(x) == IF x.present THEN Some(MapTrim(x.items)) ELSE None

RewriteExperienceSchemaParse(raw) ==
    [company |-> Trim(raw.company), role |-> Trim(raw.role), dates |-> TrimOpt(raw.dates),
     bullets |-> OptMapTrim(raw.bullets)]

RewriteProjectSchemaParse(raw) ==
    [title |-> Trim(raw.title), bullets |-> OptMapTrim(raw.bullets)]

RewriteEducationSchemaParse(raw) ==
    [school |-> Trim(raw.school), degree |-> TrimOpt(raw.degree), dates |-> TrimOpt(raw.dates)]

RewriteResumeSchemaParse(raw) ==
    [contact |-> RewriteContactSchemaParse(raw.contact),
     headline |-> Trim(raw.headline),
     summary |-> Trim(raw.summary),
     skills |-> OptMapTrim(raw.skills),
     experience |->
        IF raw.experience.present
        THEN Some([i \in 1..Len(raw.experience.items) |->
                    RewriteExperienceSchemaParse(raw.experience.items[i])])
        ELSE None,
     projects |->
        IF raw.projects.present
        THEN Some([i \in 1..Len(raw.projects.items) |->
                    RewriteProjectSchemaParse(raw.projects.items[i])])
        ELSE None,
     education |->
        IF raw.education.present
        THEN Some([i \in 1..Len(raw.education.items) |->
                    RewriteEducationSchemaParse(raw.education.items[i])])
        ELSE None]

(***************************************************************************)
(* SpecRewrite: the rewrite step of api/rewrite-resume on a schema-valid   *)
(* request: without an API key the handler answers buildFallbackResume of  *)
(* the normalized profile; with a conforming completion it answers         *)
(* sanitizeRewritePayload of the parsed completion.                        *)
(***************************************************************************)
MaxBullets == 4

MaxRewriteLen == 2

\* SPACE, "a", e-acute.
RewriteChars == {32, 97, 233}

RewriteTexts == SeqsUpTo(RewriteChars, MaxRewriteLen)

OptRewriteTexts == RewriteTexts \cup {Undefined}

\* "a", "b", "c", "d\ne", an emoji.
BulletElements == {<<97>>, <<98>>, <<99>>, <<100, 10, 101>>, <<128512>>}

BulletLists == SeqsUpTo(BulletElements, MaxBullets)

\* "a", e-acute, "a b".
SampleNames == {<<97>>, <<233>>, <<97, 32, 98>>}

\* "a e-acute", "b a", "a b c".
SampleSummaries == {<<97, 32, 233>>, <<98, 32, 97>>, <<97, 32, 98, 32, 99>>}

SampleHighlights == {<<>>, <<<<97>>>>, <<<<97>>, <<233>>>>}

SampleGaps == {<<>>, <<<<98>>>>}

MkCompletion(name, opt, summary, skills, experience, projects, education) ==
    [contact |-> [name |-> name, email |-> opt, phone |-> opt, linkedin |-> opt,
                  website |-> opt, behance |-> opt, location |-> opt],
     headline |-> name, summary |-> summary, skills |-> skills,
     experience |-> experience, projects |-> projects, education |-> education]

NoCompletion == MkCompletion(<<>>, Undefined, <<>>, None, None, None, None)

PlainProfile(name) ==
    MkProfile(MkContact(name, Undefined, Undefined, Undefined), Undefined, Undefined,
              Undefined, <<>>, <<>>)

\* Completions: one family varies the strings, one the bullet lists, and
\* one leaves the optional arrays out.
Completions ==
    UNION {{MkCompletion(t, o, sm, Some(<<t, sm>>),
                  Some(<<[company |-> t, role |-> t, dates |-> o, bullets |-> None]>>),
                  Some(<<[title |-> t, bullets |-> None]>>),
                  Some(<<[school |-> t, degree |-> o, dates |-> o]>>)) :
                o \in {Undefined, t}, sm \in SampleSummaries} : t \in RewriteTexts}
    \cup
    {MkCompletion(<<97>>, Undefined, <<97>>, None,
                  Some(<<[company |-> <<97>>, role |-> <<>>, dates |-> Undefined,
                          bullets |-> Some(b)]>>),
                  Some(<<[title |-> <<97>>, bullets |-> Some(b)]>>), None) :
        b \in BulletLists}
    \cup {NoCompletion}

RewriteRequest(path, profile, jobTitle, highlights, gaps, completion) ==
    [path |-> path, candidateProfile |-> profile, jobTitle |-> jobTitle,
     highlights |-> highlights, gaps |-> gaps, completion |-> completion]

RewriteInputs ==
    {RewriteRequest("sanitize", PlainProfile(n), Reverse(n), <<>>, <<>>, c) :
        n \in SampleNames, c \in Completions}
    \cup
    {RewriteRequest("fallback",
                    MkProfile(MkContact(n, Undefined, o, Undefined), o, o, o, <<n, <<97>>>>, <<>>),
                    tr, h, g, NoCompletion) :
        n \in SampleNames, o \in OptRewriteTexts, tr \in SampleNames,
        h \in SampleHighlights, g \in SampleGaps}
    \cup
    {RewriteRequest("fallback",
                    MkProfile(MkContact(<<97>>, Undefined, Undefined, Undefined), Undefined,
                              Undefined, Undefined, <<>>,
                              <<MkProject(<<97>>, SampleSummary, b), SampleProject,
                                SampleProject>>),
                    <<97>>, <<>>, <<>>, NoCompletion) :
        b \in BulletLists}

InitRewrite ==
    /\ pc = "start"
    /\ arg \in RewriteInputs
    /\ parsed = <<>>
    /\ res = <<>>
    /\ res2 = <<>>
    /\ locals = <<>>
    /\ log = <<>>

\* const targetRole = normalizedJob.title || "Target Role"
TargetRole(request) == OrElse(Trim(request.jobTitle), TargetRoleLiteral)

NormalizedProfile(request) ==
    normalizeCandidateProfile(CandidateProfileSchemaParse(request.candidateProfile))

\* No API key: buildFallbackResume(normalizedProfile, targetRole, ...).
RewriteFallback ==
    /\ pc = "start"
    /\ arg.path = "fallback"
    /\ parsed' = NormalizedProfile(arg)
    /\ res' = buildFallbackResume(NormalizedProfile(arg), TargetRole(arg),
                                  arg.highlights, arg.gaps)
    /\ pc' = "done"
    /\ UNCHANGED <<arg, res2, locals, log>>

\* A conforming completion: sanitizeRewritePayload(parsed, targetRole, name).
RewriteSanitize ==
    /\ pc = "start"
    /\ arg.path = "sanitize"
    /\ parsed' = RewriteResumeSchemaParse(arg.completion)
    /\ res' = sanitizeRewritePayload(RewriteResumeSchemaParse(arg.completion), TargetRole(arg),
                                     NormalizedProfile(arg).contact.name)
    /\ pc' = "done"
    /\ UNCHANGED <<arg, res2, locals, log>>

NextRewrite == RewriteFallback \/ RewriteSanitize

SpecRewrite == InitRewrite /\ [][NextRewrite]_vars

\* C9: in the rewritten resume every experience entry has at most 3 bullets
\* and every project entry at most 2, on the sanitized-completion path and
\* on the fallback path.
C9_BulletCaps ==
    pc = "done" =>
        /\ \A i \in 1..Len(res.experience) : Len(res.experience[i].bullets) <= 3
        /\ \A i \in 1..Len(res.projects.items) : Len(res.projects.items[i].bullets) <= 2

\* C9 witness: a completion whose entry carries more than three distinct
\* non-empty bullet lines was sanitized and cut to 3 and 2.
C9_Witness ==
    /\ pc = "done"
    /\ arg.path = "sanitize"
    /\ Len(parsed.experience.items) = 1
    /\ Len(SanitizedLines(Join(parsed.experience.items[1].bullets.items, <<10>>))) > 3
    /\ Len(res.experience[1].bullets) = 3
    /\ Len(res.projects.items[1].bullets) = 2

IsAsciiSafe(x) == x = Undefined \/ asciiSafe(x) = x

\* C10: every string field of the RewriteResume handed to the renderer is
\* ASCII-safe (equal to its own asciiSafe image): the contact fields, the
\* headline, the summary, each skill, each experience company, role and
\* dates, each project title, each education field and every bullet.
C10_AllFieldsAsciiSafe ==
    pc = "done" =>
        /\ \A x \in {res.contact.name, res.contact.email, res.contact.phone,
                     res.contact.linkedin, res.contact.website, res.contact.behance,
                     res.contact.location, res.headline, res.summary} : IsAsciiSafe(x)
        /\ \A i \in 1..Len(res.skills) : IsAsciiSafe(res.skills[i])
        /\ \A i \in 1..Len(res.experience) :
                /\ IsAsciiSafe(res.experience[i].company)
                /\ IsAsciiSafe(res.experience[i].role)
                /\ IsAsciiSafe(res.experience[i].dates)
                /\ \A k \in 1..Len(res.experience[i].bullets) :
                        IsAsciiSafe(res.experience[i].bullets[k])
        /\ \A i \in 1..Len(res.projects.items) :
                /\ IsAsciiSafe(res.projects.items[i].title)
                /\ \A k \in 1..Len(res.projects.items[i].bullets) :
                        IsAsciiSafe(res.projects.items[i].bullets[k])
        /\ \A i \in 1..Len(res.education.items) :
                /\ IsAsciiSafe(res.education.items[i].school)
                /\ IsAsciiSafe(res.education.items[i].degree)
                /\ IsAsciiSafe(res.education.items[i].dates)

AbsentOrBlank(x) == x = Undefined \/ Trim(x) = <<>>

\* C11: sanitizeRewritePayload does not synthesize content: a field that is
\* absent or blank in the parsed completion (skills, experience, projects,
\* education, an entry's role, dates or degree, an optional contact field)
\* is absent or blank in the sanitized resume.
C11_NoSynthesizedContent ==
    (pc = "done" /\ arg.path = "sanitize") =>
        /\ \A f \in {"email", "phone", "linkedin", "website", "behance", "location"} :
                AbsentOrBlank(parsed.contact[f]) => AbsentOrBlank(res.contact[f])
        /\ AbsentOrBlank(parsed.summary) => AbsentOrBlank(res.summary)
        /\ OrEmpty(parsed.skills) = <<>> => res.skills = <<>>
        /\ OrEmpty(parsed.experience) = <<>> => res.experience = <<>>
        /\ OrEmpty(parsed.projects) = <<>> => OrEmpty(res.projects) = <<>>
        /\ OrEmpty(parsed.education) = <<>> => OrEmpty(res.education) = <<>>
        /\ \A i \in 1..Len(res.experience) :
                /\ AbsentOrBlank(parsed.experience.items[i].company)
                        => AbsentOrBlank(res.experience[i].company)
                /\ AbsentOrBlank(parsed.experience.items[i].role)
                        => AbsentOrBlank(res.experience[i].role)
                /\ AbsentOrBlank(parsed.experience.items[i].dates)
                        => AbsentOrBlank(res.experience[i].dates)
                /\ OrEmpty(parsed.experience.items[i].bullets) = <<>>
                        => res.experience[i].bullets = <<>>
        /\ \A i \in 1..Len(res.education.items) :
                /\ AbsentOrBlank(parsed.education.items[i].degree)
                        => AbsentOrBlank(res.education.items[i].degree)
                /\ AbsentOrBlank(parsed.education.items[i].dates)
                        => AbsentOrBlank(res.education.items[i].dates)

(***************************************************************************)
(* SpecStripName: stripNameFromSummary applied to a summary and a name.    *)
(* Names hold letters and white space only, so that the pattern built      *)
(* from the name has no regular-expression metacharacter.                  *)
(***************************************************************************)
MaxSummaryLen == 5

\* SPACE, "A", "a", "b".
SummaryChars == {32, 65, 97, 98}

SummaryInputs == SeqsUpTo(SummaryChars, MaxSummaryLen)

\* "a", "ab", "a b", " ".
NameInputs == {<<97>>, <<97, 98>>, <<97, 32, 98>>, <<32>>}

InitStripName ==
    /\ pc = "start"
    /\ arg \in [summary : SummaryInputs, fullName : NameInputs]
    /\ parsed = <<>>
    /\ res = <<>>
    /\ res2 = <<>>
    /\ locals = <<>>
    /\ log = <<>>

CallStripName ==
    /\ pc = "start"
    /\ res' = stripNameFromSummary(arg.summary, arg.fullName)
    /\ pc' = "done"
    /\ UNCHANGED <<arg, parsed, res2, locals, log>>

NextStripName == CallStripName

SpecStripName == InitStripName /\ [][NextStripName]_vars

\* s holds the words of the name as whole words, in any letter case, with a
\* run of white space between consecutive words.
ContainsName(s, fullName) ==
    \E i \in 1..Len(s) : NameMatchesAt(s, i, NameWords(Trim(fullName)))

MaxTitleInputLen == 5

\* "How to Draw (iOS) - Step-by-step", "Full-Stack", "a<TAB><en dash>|b".
HowToDrawTitle == <<72, 111, 119, 32, 116, 111, 32, 68, 114, 97, 119, 32, 40, 105, 79, 83, 41, 32, 45, 32, 83, 116, 101, 112, 45, 98, 121, 45, 115, 116, 101, 112>>

FullStackTitle == <<70, 117, 108, 108, 45, 83, 116, 97, 99, 107>>

SampleTitles == {HowToDrawTitle, FullStackTitle, <<97, 9, 8211, 124, 98>>}

TitleInputs == SeqsUpTo(TitleChars, MaxTitleInputLen) \cup SampleTitles

InitTitle ==
    /\ pc = "start"
    /\ arg \in TitleInputs
    /\ parsed = <<>>
    /\ res = <<>>
    /\ res2 = <<>>
    /\ locals = <<>>
    /\ log = <<>>

CallSanitizeProjectTitle ==
    /\ pc = "start"
    /\ res' = sanitizeProjectTitle(arg)
    /\ pc' = "done"
    /\ UNCHANGED <<arg, parsed, res2, locals, log>>

NextTitle == CallSanitizeProjectTitle

SpecTitle == InitTitle /\ [][NextTitle]_vars

\* The steps of the contract, written from its wording.  A parenthetical
\* group runs from the first "(" that has a ")" behind it to the first such
\* ")", with the white space around it; gap is what is left in its place.
RECURSIVE WithoutGroups(_, _)
WithoutGroups(s, gap) ==
    IF \E p \in 1..Len(s) : s[p] = 40 /\ \E q \in (p + 1)..Len(s) : s[q] = 41
    THEN LET p == CHOOSE k \in 1..Len(s) : s[k] = 40 /\ \A m \in 1..(k - 1) : s[m] # 40
             q == CHOOSE k \in (p + 1)..Len(s) : s[k] = 41 /\ \A m \in (p + 1)..(k - 1) : s[m] # 41
             a == CHOOSE k \in 1..p :
                    /\ \A m \in k..(p - 1) : s[m] \in WhiteSpace
                    /\ (k = 1 \/ s[k - 1] \notin WhiteSpace)
             b == CHOOSE k \in q..Len(s) :
                    /\ \A m \in (q + 1)..k : s[m] \in WhiteSpace
                    /\ (k = Len(s) \/ s[k + 1] \notin WhiteSpace)
         IN  SubSeq(s, 1, a - 1) \o gap \o WithoutGroups(SubSeq(s, b + 1, Len(s)), gap)
    ELSE s

\* Each maximal run of separator glyphs replaced by "-" when the characters
\* right before and right after it are both non-space, by " - " otherwise.
SeparatorsUnified(s) ==
    LET IsSep(i) == i >= 1 /\ i <= Len(s) /\ s[i] \in TitleSeparators
        IsSpaceAt(i) == i < 1 \/ i > Len(s) \/ s[i] \in WhiteSpace
        RunEnd(i) == CHOOSE k \in i..Len(s) : (\A m \in i..k : IsSep(m)) /\ ~IsSep(k + 1)
    IN  Flatten([i \in 1..Len(s) |->
            IF ~IsSep(i) THEN <<s[i]>>
            ELSE IF IsSep(i - 1) THEN <<>>
            ELSE IF ~IsSpaceAt(i - 1) /\ ~IsSpaceAt(RunEnd(i) + 1) THEN <<45>>
            ELSE <<32, 45, 32>>])

TitleSteps(s, gap) == Trim(CollapseSpaces(SeparatorsUnified(WithoutGroups(s, gap))))

\* C13 as stated: every parenthetical group is removed with its parentheses
\* and the white space around it, leaving nothing in its place; then the
\* separator runs are unified, multiple spaces collapsed and the ends trimmed.
C13_TitleStepsRemove == pc = "done" => res = TitleSteps(arg, <<>>)

\* C13 amended: every parenthetical group, with its parentheses and the white
\* space around it, is replaced by one space; then the separator runs are
\* unified, multiple spaces collapsed and the ends trimmed.  "How to Draw
\* (iOS) - Step-by-step" gives "How to Draw - Step-by-step" and "Full-Stack"
\* gives "Full-Stack".
C13_TitleSteps ==
    pc = "done" =>
        /\ res = TitleSteps(arg, <<32>>)
        /\ arg = HowToDrawTitle => res = <<72, 111, 119, 32, 116, 111, 32, 68, 114, 97, 119, 32, 45, 32, 83, 116, 101, 112, 45, 98, 121, 45, 115, 116, 101, 112>>
        /\ arg = FullStackTitle => res = FullStackTitle

\* C13 witness: the title with a parenthetical group, a spaced separator and
\* flush hyphens has been sanitized.
C13_Witness ==
    /\ pc = "done"
    /\ arg = HowToDrawTitle
    /\ res = TitleSteps(arg, <<32>>)
    /\ Len(res) < Len(arg)

(***************************************************************************)
(* SpecRetitle: sanitizeProjectTitle applied to a title and then to its    *)
(* own result, as when normalizeCandidateProfile has sanitized a project   *)
(* name and the renderer sanitizes it again.                               *)
(***************************************************************************)
MaxRetitleLen == 5

\* Tab, space, "(", ")", "-", a letter, "|".
RetitleChars == {9, 32, 40, 41, 45, 97, 124}

\* "((a) b)) - (c", "a (b(c)) | - d (", "- a (b) -- | c -".
NestedTitles ==
    { <<40, 40, 97, 41, 32, 98, 41, 41, 32, 45, 32, 40, 99>>,
      <<97, 32, 40, 98, 40, 99, 41, 41, 32, 124, 32, 45, 32, 100, 32, 40>>,
      <<45, 32, 97, 32, 40, 98, 41, 32, 45, 45, 32, 124, 32, 99, 32, 45>>,
      HowToDrawTitle }

RetitleInputs == SeqsUpTo(RetitleChars, MaxRetitleLen) \cup NestedTitles

InitRetitle ==
    /\ pc = "start"
    /\ arg \in RetitleInputs
    /\ parsed = <<>>
    /\ res = <<>>
    /\ res2 = <<>>
    /\ locals = <<>>
    /\ log = <<>>

SanitizeTitle ==
    /\ pc = "start"
    /\ res' = sanitizeProjectTitle(arg)
    /\ pc' = "once"
    /\ UNCHANGED <<arg, parsed, res2, locals, log>>

ResanitizeTitle ==
    /\ pc = "once"
    /\ res2' = sanitizeProjectTitle(res)
    /\ pc' = "twice"
    /\ UNCHANGED <<arg, parsed, res, locals, log>>

NextRetitle == SanitizeTitle \/ ResanitizeTitle

SpecRetitle == InitRetitle /\ [][NextRetitle]_vars

\* C29: sanitizeProjectTitle is idempotent: sanitizing a sanitized title gives
\* the same title, whatever the parentheses (nested, unbalanced) and the
\* separators (at the start, at the end, runs side by side) of the original.
C29_SanitizeTitleIdempotent == pc = "twice" => res2 = res

\* C29 witness: a title with nested and unbalanced parentheses, separators at
\* both ends and two separator runs a space apart was changed by the first
\* pass and left alone by the second.
C29_Witness ==
    /\ pc = "twice"
    /\ arg = <<45, 32, 97, 32, 40, 98, 41, 32, 45, 45, 32, 124, 32, 99, 32, 45>>
    /\ res # arg
    /\ res = <<45, 32, 97, 32, 45, 32, 45, 32, 99, 32, 45>>
    /\ res2 = res

(***************************************************************************)
(* SpecDedupe: dedupeLines applied to a text.                              *)
(***************************************************************************)
MaxLinesLen == 5

\* LF, CR, SPACE, "a", "b".
LineChars == {10, 13, 32, 97, 98}

\* "a\na\nb\n a "
DedupeExample == <<97, 10, 97, 10, 98, 10, 32, 97, 32>>

LineInputs == SeqsUpTo(LineChars, MaxLinesLen) \cup {DedupeExample}

InitDedupe ==
    /\ pc = "start"
    /\ arg \in LineInputs
    /\ parsed = <<>>
    /\ res = <<>>
    /\ res2 = <<>>
    /\ locals = <<>>
    /\ log = <<>>

CallDedupeLines ==
    /\ pc = "start"
    /\ res' = dedupeLines(arg)
    /\ pc' = "done"
    /\ UNCHANGED <<arg, parsed, res2, locals, log>>

NextDedupe == CallDedupeLines

SpecDedupe == InitDedupe /\ [][NextDedupe]_vars

\* The lines of a text joined by single newlines (none for the empty text).
LinesOf(text) == IF text = <<>> THEN <<>> ELSE Split(text, 10)

\* C14: the lines of dedupeLines(text) are exactly the distinct non-empty
\* trimmed lines of text, each once, in the order of their first occurrence;
\* dedupeLines("a\na\nb\n a ") is "a\nb".
C14_DedupeLines ==
    pc = "done" =>
        /\ ListNormalized(Split(arg, 10), LinesOf(res))
        /\ arg = DedupeExample => res = <<97, 10, 98>>

\* C14 witness: a text with a repeated line, once with white space around
\* it, has been reduced to its two distinct lines.
C14_Witness == pc = "done" /\ arg = DedupeExample /\ res = <<97, 10, 98>>

(***************************************************************************)
(* lib/normalizers: cleanResumeText, cleanJobDescription.                  *)
(***************************************************************************)
\* bulletRegex /[•·◦▪►■◆▶▸-]\s*/g
BulletGlyphs == {8226, 183, 9702, 9642, 9658, 9632, 9670, 9654, 9656, 45}

\* text.replace(bulletRegex, "- "): each glyph, with the white space that
\* follows it, becomes "- ".
ReplaceBullets(s) ==
    LET AfterGlyph(i) ==
            \E g \in 1..(i - 1) :
                s[g] \in BulletGlyphs /\ \A m \in (g + 1)..(i - 1) : s[m] \in WhiteSpace
    IN  Flatten([i \in 1..Len(s) |->
            IF s[i] \in BulletGlyphs THEN <<45, 32>>
            ELSE IF s[i] \in WhiteSpace /\ AfterGlyph(i) THEN <<>>
            ELSE <<s[i]>>])

\* What disallowedCharsRegex /[^a-zA-Z0-9.,;:/()&\-'\s]/g leaves in place.
AllowedChars ==
    (97..122) \cup (65..90) \cup (48..57) \cup {46, 44, 59, 58, 47, 40, 41, 38, 45, 39}
        \cup WhiteSpace

RemoveDisallowed(s) == SelectSeq(s, LAMBDA c : c \in AllowedChars)

\* text.replace(/\s+/g, " "): every run of white space becomes one space.
CollapseWhitespace(s) ==
    Flatten([i \in 1..Len(s) |->
        IF s[i] \notin WhiteSpace THEN <<s[i]>>
        ELSE IF i > 1 /\ s[i - 1] \in WhiteSpace THEN <<>>
        ELSE <<32>>])

cleanResumeText(text) == Trim(CollapseWhitespace(RemoveDisallowed(ReplaceBullets(text))))

\* "What we offer", "Benefits", "Compensation"
BenefitsPhrases == {<<87, 104, 97, 116, 32, 119, 101, 32, 111, 102, 102, 101, 114>>,
                    <<66, 101, 110, 101, 102, 105, 116, 115>>,
                    <<67, 111, 109, 112, 101, 110, 115, 97, 116, 105, 111, 110>>}

\* Whether one of the phrases stands at position i of s, in any letter case.
PhraseAt(s, i) ==
    \E p \in BenefitsPhrases :
        /\ i + Len(p) - 1 <= Len(s)
        /\ ToLower(SubSeq(s, i, i + Len(p) - 1)) = ToLower(p)

\* text.replace(/(What we offer|Benefits|Compensation)[\s\S]*/i, "")
TruncateBenefits(s) ==
    IF \E i \in 1..Len(s) : PhraseAt(s, i)
    THEN LET i == CHOOSE k \in 1..Len(s) : PhraseAt(s, k) /\ \A m \in 1..(k - 1) : ~PhraseAt(s, m)
         IN  SubSeq(s, 1, i - 1)
    ELSE s

cleanJobDescription(text) ==
    Trim(CollapseWhitespace(RemoveDisallowed(ReplaceBullets(TruncateBenefits(text)))))

(***************************************************************************)
(* SpecCleanJob: cleanJobDescription applied to a job text made of up to   *)
(* MaxChunks pieces.                                                       *)
(***************************************************************************)
MaxChunks == 3

\* "Benefits", "BENEFITS", "What we offer", "Compensation", "What",
\* "we offer", "Bene", "fits", "Free lunch", SPACE, LF, "!", "-".
JobChunks == {<<66, 101, 110, 101, 102, 105, 116, 115>>,
              <<66, 69, 78, 69, 70, 73, 84, 83>>,
              <<87, 104, 97, 116, 32, 119, 101, 32, 111, 102, 102, 101, 114>>,
              <<67, 111, 109, 112, 101, 110, 115, 97, 116, 105, 111, 110>>,
              <<87, 104, 97, 116>>, <<119, 101, 32, 111, 102, 102, 101, 114>>,
              <<66, 101, 110, 101>>, <<102, 105, 116, 115>>,
              <<70, 114, 101, 101, 32, 108, 117, 110, 99, 104>>,
              <<32>>, <<10>>, <<33>>, <<45>>}

JobTexts == {Flatten(chunks) : chunks \in SeqsUpTo(JobChunks, MaxChunks)}

InitCleanJob ==
    /\ pc = "start"
    /\ arg \in JobTexts
    /\ parsed = <<>>
    /\ res = <<>>
    /\ res2 = <<>>
    /\ locals = <<>>
    /\ log = <<>>

CallCleanJobDescription ==
    /\ pc = "start"
    /\ res' = cleanJobDescription(arg)
    /\ pc' = "done"
    /\ UNCHANGED <<arg, parsed, res2, locals, log>>

NextCleanJob == CallCleanJobDescription

SpecCleanJob == InitCleanJob /\ [][NextCleanJob]_vars

ContainsPhrase(s) == \E i \in 1..Len(s) : PhraseAt(s, i)

\* C15: the result of cleanJobDescription holds none of the phrases "What we
\* offer", "Benefits", "Compensation" in any letter case, and it is the
\* cleaned form of the text in front of the first of them in the input.
C15_BenefitsDiscarded ==
    pc = "done" =>
        /\ ~ContainsPhrase(res)
        /\ res = cleanResumeText(TruncateBenefits(arg))

(***************************************************************************)
(* api/match: computeKeywordStats, clampScore.  A score that is not an     *)
(* integer is kept exactly, as the fraction num / den with den > 0.        *)
(***************************************************************************)
Ratio(num, den) == [num |-> num, den |-> den]

Min(a, b) == IF a <= b THEN a ELSE b

Max(a, b) == IF a >= b THEN a ELSE b

\* Math.round of the non-negative fraction num / den: halves go up.
MathRound(num, den) == (2 * num + den) \div (2 * den)

\* A plausible slip: the job keywords are counted with their duplicates.
computeKeywordStatsByLength(jobKeywords, resumeKeywords) ==
    IF Len(jobKeywords) = 0
    THEN [overlapTerms |-> <<>>, overlapCount |-> 0, keywordScore |-> Ratio(0, 1), percent |-> 0]
    ELSE LET resumeSet == {resumeKeywords[i] : i \in 1..Len(resumeKeywords)}
             overlapTerms == SelectSeq(jobKeywords, LAMBDA keyword : keyword \in resumeSet)
             overlapCount == Len(overlapTerms)
             size == Len(jobKeywords)
         IN  [overlapTerms |-> overlapTerms,
              overlapCount |-> overlapCount,
              keywordScore |-> Ratio(Min(100 * Max(10, size), overlapCount * 120), Max(10, size)),
              percent |-> MathRound(Min(100 * size, overlapCount * 100), size)]

\* A plausible slip: the floor of 10 on the divisor is left out.
computeKeywordStatsNoFloor(jobKeywords, resumeKeywords) ==
    IF Len(jobKeywords) = 0
    THEN [overlapTerms |-> <<>>, overlapCount |-> 0, keywordScore |-> Ratio(0, 1), percent |-> 0]
    ELSE LET jobSet == Dedupe(jobKeywords)
             resumeSet == {resumeKeywords[i] : i \in 1..Len(resumeKeywords)}
             overlapTerms == SelectSeq(jobSet, LAMBDA keyword : keyword \in resumeSet)
             overlapCount == Len(overlapTerms)
             size == Len(jobSet)
         IN  [overlapTerms |-> overlapTerms,
              overlapCount |-> overlapCount,
              keywordScore |-> Ratio(Min(100 * size, overlapCount * 120), size),
              percent |-> MathRound(Min(100 * size, overlapCount * 100), size)]

\* new Set(jobKeywords) iterates in the order of first insertion: Dedupe.
computeKeywordStats(jobKeywords, resumeKeywords) ==
    IF Len(jobKeywords) = 0
    THEN [overlapTerms |-> <<>>, overlapCount |-> 0, keywordScore |-> Ratio(0, 1), percent |-> 0]
    ELSE LET jobSet == Dedupe(jobKeywords)
             resumeSet == {resumeKeywords[i] : i \in 1..Len(resumeKeywords)}
             overlapTerms == SelectSeq(jobSet, LAMBDA keyword : keyword \in resumeSet)
             overlapCount == Len(overlapTerms)
             size == Len(jobSet)
         IN  [overlapTerms |-> overlapTerms,
              overlapCount |-> overlapCount,
              keywordScore |-> Ratio(Min(100 * Max(10, size), overlapCount * 120), Max(10, size)),
              percent |-> MathRound(Min(100 * size, overlapCount * 100), size)]

(***************************************************************************)
(* SpecKeywordStats: computeKeywordStats applied to a list of job keywords *)
(* and a list of resume keywords, both possibly with duplicates.           *)
(***************************************************************************)
MaxKeywords == 12

\* The k-th keyword: "kw" followed by the k-th letter.
Keyword(k) == <<107, 119, 96 + k>>

\* Keywords lo..hi in rising order.
KeywordRange(lo, hi) == [i \in 1..(hi + 1 - lo) |-> Keyword(lo + i - 1)]

\* Job keywords: the first n keywords, rising or falling, alone or followed
\* by a repetition of themselves.
JobKeywordLists ==
    {IF dup THEN l \o l ELSE l :
        l \in UNION {{KeywordRange(1, n), Reverse(KeywordRange(1, n))} : n \in 0..MaxKeywords},
        dup \in BOOLEAN}

\* Resume keywords: keywords lo..hi (none when lo > hi), falling, alone or
\* repeated; keyword MaxKeywords + 1 is never a job keyword.
ResumeKeywordLists ==
    {IF dup THEN l \o l ELSE l :
        l \in UNION {{Reverse(KeywordRange(lo, hi)) : hi \in (lo - 1)..(MaxKeywords + 1)} :
                        lo \in 1..(MaxKeywords + 1)},
        dup \in BOOLEAN}

InitKeywordStats ==
    /\ pc = "start"
    /\ arg \in [jobKeywords : JobKeywordLists, resumeKeywords : ResumeKeywordLists]
    /\ parsed = <<>>
    /\ res = <<>>
    /\ res2 = <<>>
    /\ locals = <<>>
    /\ log = <<>>

CallComputeKeywordStats ==
    /\ pc = "start"
    /\ res' = computeKeywordStats(arg.jobKeywords, arg.resumeKeywords)
    /\ pc' = "done"
    /\ UNCHANGED <<arg, parsed, res2, locals, log>>

NextKeywordStats == CallComputeKeywordStats

SpecKeywordStats == InitKeywordStats /\ [][NextKeywordStats]_vars

Elements(l) == {l[i] : i \in 1..Len(l)}

PositionIn(l, v) == CHOOSE k \in 1..Len(l) : l[k] = v /\ \A m \in 1..(k - 1) : l[m] # v

\* C16: percent is an integer in [0,100] and the rounding of
\* 100 * overlapCount / |set(J)|; with J empty, percent, overlapCount and
\* keywordScore are 0 and overlapTerms is empty; overlapTerms lists exactly
\* the distinct job keywords present in R, in job-keyword order.
C16_PercentAndOverlapTerms ==
    pc = "done" =>
        LET J == arg.jobKeywords
            R == arg.resumeKeywords
            n == Cardinality(Elements(J))
            terms == res.overlapTerms
        IN  /\ res.percent \in 0..100
            /\ res.overlapCount = Len(terms)
            /\ n > 0 => /\ (2 * res.percent - 1) * n <= 200 * res.overlapCount
                        /\ 200 * res.overlapCount < (2 * res.percent + 1) * n
            /\ J = <<>> => /\ res.percent = 0
                           /\ res.overlapCount = 0
                           /\ res.keywordScore.num = 0
                           /\ terms = <<>>
            /\ Elements(terms) = Elements(J) \cap Elements(R)
            /\ \A i, j \in 1..Len(terms) :
                    i < j => PositionIn(J, terms[i]) < PositionIn(J, terms[j])

\* C16 witness: job keywords with duplicates, some but not all of them among
\* the resume keywords, and a percent that had to be rounded.
C16_Witness ==
    /\ pc = "done"
    /\ Len(arg.jobKeywords) > Cardinality(Elements(arg.jobKeywords))
    /\ res.overlapCount > 1
    /\ res.overlapCount < Cardinality(Elements(arg.jobKeywords))
    /\ res.percent * Cardinality(Elements(arg.jobKeywords)) # 100 * res.overlapCount

\* C17: keywordScore is min(100, overlapCount / max(10, |set(J)|) * 120) and
\* lies in [0,100]; with fewer than 10 distinct job keywords it is 100 only
\* if at least 9 of them overlap, and full overlap of a job set of size
\* n < 9 gives 12 * n.
C17_KeywordScore ==
    pc = "done" =>
        LET n == Cardinality(Elements(arg.jobKeywords))
            c == Cardinality(Elements(arg.jobKeywords) \cap Elements(arg.resumeKeywords))
            score == res.keywordScore
        IN  /\ score.den > 0
            /\ score.num >= 0
            /\ score.num <= 100 * score.den
            /\ IF 120 * c <= 100 * Max(10, n)
               THEN score.num * Max(10, n) = 120 * c * score.den
               ELSE score.num = 100 * score.den
            /\ (n < 10 /\ score.num = 100 * score.den) => c >= 9
            /\ (n > 0 /\ n < 9 /\ c = n) => score.num = 12 * n * score.den

\* C17 witness: fewer than 9 distinct job keywords, all of them among the
\* resume keywords.
C17_Witness ==
    /\ pc = "done"
    /\ Cardinality(Elements(arg.jobKeywords)) = 8
    /\ res.overlapCount = 8
    /\ res.keywordScore.num = 96 * res.keywordScore.den

(***************************************************************************)
(* api/match: STOP_WORDS, tokenize, extractTopKeywords.                    *)
(***************************************************************************)
\* "and", "or", "the", "a", "an", "for", "with", "from", "that", "this",
\* "your", "our", "their", "to", "of", "in", "on", "by", "is", "are", "be",
\* "as", "at", "we", "you", "will", "can", "able", "have", "has", "into",
\* "within", "across", "about", "its", "it's".
STOP_WORDS ==
    {<<97, 110, 100>>, <<111, 114>>, <<116, 104, 101>>, <<97>>, <<97, 110>>, <<102, 111, 114>>,
     <<119, 105, 116, 104>>, <<102, 114, 111, 109>>, <<116, 104, 97, 116>>,
     <<116, 104, 105, 115>>, <<121, 111, 117, 114>>, <<111, 117, 114>>,
     <<116, 104, 101, 105, 114>>, <<116, 111>>, <<111, 102>>, <<105, 110>>, <<111, 110>>,
     <<98, 121>>, <<105, 115>>, <<97, 114, 101>>, <<98, 101>>, <<97, 115>>, <<97, 116>>,
     <<119, 101>>, <<121, 111, 117>>, <<119, 105, 108, 108>>, <<99, 97, 110>>,
     <<97, 98, 108, 101>>, <<104, 97, 118, 101>>, <<104, 97, 115>>, <<105, 110, 116, 111>>,
     <<119, 105, 116, 104, 105, 110>>, <<97, 99, 114, 111, 115, 115>>,
     <<97, 98, 111, 117, 116>>, <<105, 116, 115>>, <<105, 116, 39, 115>>}

\* [a-z0-9+]
TokenChars == (97..122) \cup (48..57) \cup {43}

\* Length of the maximal run of token characters at the head of s.
RECURSIVE TokenRun(_)
TokenRun(s) == IF s # <<>> /\ Head(s) \in TokenChars THEN 1 + TokenRun(Tail(s)) ELSE 0

\* s.match(/[a-z0-9+]+/g) ?? [] : one match from every position where a run
\* of token characters begins, to the end of that run.
MatchTokens(s) ==
    LET starts == SelectSeq([i \in 1..Len(s) |-> i],
                            LAMBDA i : s[i] \in TokenChars /\ (i = 1 \/ s[i - 1] \notin TokenChars))
    IN  [k \in 1..Len(starts) |->
            SubSeq(s, starts[k], starts[k] + TokenRun(Drop(s, starts[k] - 1)) - 1)]

tokenize(text) ==
    SelectSeq(MatchTokens(ToLower(text)), LAMBDA token : Len(token) > 2 /\ token \notin STOP_WORDS)

\* counts.get(token): how often the token occurs.
CountOf(tokens, token) == Cardinality({i \in 1..Len(tokens) : tokens[i] = token})

\* entries.sort((a, b) => b[1] - a[1]) is stable: an entry goes behind every
\* earlier entry whose count is at least its own.
RECURSIVE SortByCount(_, _)
SortByCount(entries, tokens) ==
    IF entries = <<>> THEN <<>>
    ELSE LET sorted == SortByCount(SubSeq(entries, 1, Len(entries) - 1), tokens)
             last == entries[Len(entries)]
             k == Cardinality({i \in 1..Len(sorted) :
                                CountOf(tokens, sorted[i]) >= CountOf(tokens, last)})
         IN  Take(sorted, k) \o <<last>> \o Drop(sorted, k)

\* A plausible slip: the entries are not sorted by count.
extractTopKeywordsUnsorted(text, limit) == Take(Dedupe(tokenize(text)), limit)

\* The Map keeps the tokens in the order of their first occurrence.
extractTopKeywords(text, limit) ==
    Take(SortByCount(Dedupe(tokenize(text)), tokenize(text)), limit)

(***************************************************************************)
(* SpecKeywords: extractTopKeywords applied to a text of up to MaxWords    *)
(* pieces and a limit.                                                     *)
(***************************************************************************)
MaxWords == 4

\* limit = 25
DefaultLimit == 25

\* "sql ", "SQL,", "rust ", "the ", "go ", "c++ ", "ab".
WordChunks == {<<115, 113, 108, 32>>, <<83, 81, 76, 44>>, <<114, 117, 115, 116, 32>>,
               <<116, 104, 101, 32>>, <<103, 111, 32>>, <<99, 43, 43, 32>>, <<97, 98>>}

KeywordTexts == {Flatten(chunks) : chunks \in SeqsUpTo(WordChunks, MaxWords)}

KeywordLimits == {0, 1, 2, DefaultLimit}

InitKeywords ==
    /\ pc = "start"
    /\ arg \in [text : KeywordTexts, limit : KeywordLimits]
    /\ parsed = <<>>
    /\ res = <<>>
    /\ res2 = <<>>
    /\ locals = <<>>
    /\ log = <<>>

CallExtractTopKeywords ==
    /\ pc = "start"
    /\ res' = extractTopKeywords(arg.text, arg.limit)
    /\ pc' = "done"
    /\ UNCHANGED <<arg, parsed, res2, locals, log>>

NextKeywords == CallExtractTopKeywords

SpecKeywords == InitKeywords /\ [][NextKeywords]_vars

\* The positions of s at which a maximal run of token characters equal to
\* token starts.
RunStarts(s, token) ==
    {a \in 1..Len(s) :
        /\ a + Len(token) - 1 <= Len(s)
        /\ SubSeq(s, a, a + Len(token) - 1) = token
        /\ \A i \in 1..Len(token) : token[i] \in TokenChars
        /\ (a = 1 \/ s[a - 1] \notin TokenChars)
        /\ (a + Len(token) > Len(s) \/ s[a + Len(token)] \notin TokenChars)}

FirstStart(s, token) == CHOOSE a \in RunStarts(s, token) : \A b \in RunStarts(s, token) : a <= b

\* C18: extractTopKeywords(text, limit) returns at most limit tokens, all
\* distinct, none of length 2 or less, none a stop word, each a maximal run
\* of [a-z0-9+] of the lower-cased text, ordered by descending frequency
\* with ties in the order of first occurrence.
C18_TopKeywords ==
    pc = "done" =>
        LET lower == ToLower(arg.text) IN
        /\ Len(res) <= arg.limit
        /\ \A i, j \in 1..Len(res) : i # j => res[i] # res[j]
        /\ \A i \in 1..Len(res) :
                /\ Len(res[i]) > 2
                /\ res[i] \notin STOP_WORDS
                /\ RunStarts(lower, res[i]) # {}
        /\ \A i, j \in 1..Len(res) :
                i < j =>
                    \/ Cardinality(RunStarts(lower, res[i])) > Cardinality(RunStarts(lower, res[j]))
                    \/ /\ Cardinality(RunStarts(lower, res[i])) = Cardinality(RunStarts(lower, res[j]))
                       /\ FirstStart(lower, res[i]) < FirstStart(lower, res[j])

\* C18 witness: a text of four keywords, three of them distinct and a later
\* one the most frequent, cut to the limit of two.
C18_Witness ==
    /\ pc = "done"
    /\ arg.limit = 2
    /\ Len(tokenize(arg.text)) = 4
    /\ Len(Dedupe(tokenize(arg.text))) = 3
    /\ Len(res) = 2
    /\ res[1] # tokenize(arg.text)[1]

(***************************************************************************)
(* api/match: clampScore and the blended score of POST.                    *)
(***************************************************************************)
\* clampScore(value) for the non-negative fraction value.
clampScore(value) == Max(0, Min(100, MathRound(value.num, value.den)))

\* llmScore * 0.7 + keywordScore * 0.3, exactly.
BlendSum(llmScore, keywordScore) ==
    Ratio(7 * llmScore * keywordScore.den + 3 * keywordScore.num, 10 * keywordScore.den)

\* The triples <<llmScore, keywordScore.num, keywordScore.den>> at which the
\* exact sum is a half k + 0.5 while the double-precision sum of the two
\* double-precision products falls just below it (45 * 0.7 is
\* 31.499999999999996), so that Math.round gives k and not k + 1; computed
\* in IEEE 754 binary64 for llmScore in 0..100 and every keywordScore that
\* computeKeywordStats gives for up to 25 job keywords.  Off the halves the
\* double-precision sum rounds as the exact sum does.
BlendBelowHalf ==
    {<<1, 360, 10>>, <<1, 720, 20>>, <<1, 960, 10>>, <<1, 1440, 15>>, <<1, 1920, 20>>,
     <<1, 2400, 25>>, <<3, 360, 20>>, <<5, 1680, 18>>, <<7, 720, 10>>, <<7, 1080, 15>>,
     <<7, 1440, 20>>, <<7, 1800, 25>>, <<17, 120, 10>>, <<17, 240, 20>>, <<23, 120, 15>>,
     <<23, 360, 20>>, <<23, 480, 10>>, <<23, 720, 15>>, <<23, 960, 20>>, <<23, 1200, 25>>,
     <<29, 240, 10>>, <<29, 360, 15>>, <<29, 480, 20>>, <<29, 600, 25>>, <<33, 120, 15>>,
     <<33, 360, 20>>, <<45, 0, 10>>, <<45, 0, 11>>, <<45, 0, 12>>, <<45, 0, 13>>,
     <<45, 0, 14>>, <<45, 0, 15>>, <<45, 0, 16>>, <<45, 0, 17>>, <<45, 0, 18>>, <<45, 0, 19>>,
     <<45, 0, 20>>, <<45, 0, 21>>, <<45, 0, 22>>, <<45, 0, 23>>, <<45, 0, 24>>, <<45, 0, 25>>,
     <<45, 120, 18>>, <<45, 240, 18>>, <<45, 480, 18>>, <<45, 840, 18>>, <<45, 960, 18>>,
     <<45, 1680, 18>>, <<51, 120, 20>>, <<51, 240, 15>>, <<51, 360, 10>>, <<51, 720, 20>>,
     <<53, 120, 15>>, <<53, 360, 20>>, <<53, 480, 10>>, <<53, 720, 15>>, <<53, 960, 20>>,
     <<53, 1200, 25>>, <<53, 1320, 15>>, <<53, 1560, 20>>, <<61, 120, 20>>, <<61, 240, 15>>,
     <<61, 360, 10>>, <<61, 720, 20>>, <<63, 120, 15>>, <<63, 360, 20>>, <<63, 480, 10>>,
     <<63, 720, 15>>, <<63, 960, 20>>, <<63, 1200, 25>>, <<71, 120, 20>>, <<71, 240, 15>>,
     <<71, 360, 10>>, <<71, 720, 20>>, <<73, 120, 15>>, <<73, 360, 20>>, <<81, 120, 20>>,
     <<81, 240, 15>>, <<83, 120, 15>>, <<83, 360, 20>>, <<85, 0, 10>>, <<85, 0, 11>>,
     <<85, 0, 12>>, <<85, 0, 13>>, <<85, 0, 14>>, <<85, 0, 15>>, <<85, 0, 16>>, <<85, 0, 17>>,
     <<85, 0, 18>>, <<85, 0, 19>>, <<85, 0, 20>>, <<85, 0, 21>>, <<85, 0, 22>>, <<85, 0, 23>>,
     <<85, 0, 24>>, <<85, 0, 25>>, <<85, 120, 12>>, <<85, 120, 18>>, <<85, 240, 18>>,
     <<85, 240, 24>>, <<85, 480, 18>>, <<85, 840, 18>>, <<85, 960, 18>>, <<85, 1680, 18>>,
     <<97, 120, 10>>, <<97, 240, 20>>, <<97, 480, 15>>, <<97, 720, 10>>, <<97, 840, 20>>,
     <<97, 1080, 15>>, <<97, 1440, 20>>, <<97, 1800, 25>>}

\* A plausible slip: the two weights are swapped.
blendScoreSwapped(llmScore, keywordScore) ==
    clampScore(Ratio(3 * llmScore * keywordScore.den + 7 * keywordScore.num,
                     10 * keywordScore.den))

\* clampScore(llmScore * 0.7 + keywordScore * 0.3)
blendScore(llmScore, keywordScore) ==
    LET sum == BlendSum(llmScore, keywordScore)
        rounded == IF <<llmScore, keywordScore.num, keywordScore.den>> \in BlendBelowHalf
                   THEN MathRound(sum.num, sum.den) - 1
                   ELSE MathRound(sum.num, sum.den)
    IN  Max(0, Min(100, rounded))

(***************************************************************************)
(* SpecBlend: the scores of the response of api/match for a collaborator   *)
(* fit_score and a keyword score.                                          *)
(***************************************************************************)
\* The keyword scores computeKeywordStats gives: min(100, c / d * 120) for a
\* divisor d = max(10, jobSet.size) of 10..DefaultLimit and c overlaps.
KeywordScores ==
    UNION {{Ratio(Min(100 * d, 120 * c), d) : c \in 0..d} : d \in 10..DefaultLimit}

\* fit_score of the collaborator: 0..100, whole or with a half.
FitScores == {Ratio(n, 1) : n \in 0..100} \cup {Ratio(1, 2), Ratio(91, 2), Ratio(199, 2)}

InitBlend ==
    /\ pc = "start"
    /\ arg \in [fit_score : FitScores, keywordScore : KeywordScores]
    /\ parsed = <<>>
    /\ res = <<>>
    /\ res2 = <<>>
    /\ locals = <<>>
    /\ log = <<>>

CallBlend ==
    /\ pc = "start"
    /\ res' = [llm_fit_score |-> clampScore(arg.fit_score),
               fit_score |-> blendScore(clampScore(arg.fit_score), arg.keywordScore),
               keyword_overlap |-> MathRound(arg.keywordScore.num, arg.keywordScore.den)]
    /\ pc' = "done"
    /\ UNCHANGED <<arg, parsed, res2, locals, log>>

NextBlend == CallBlend

SpecBlend == InitBlend /\ [][NextBlend]_vars

\* a / b <= c / d for fractions with positive denominators.
RatioLeq(x, y) == x.num * y.den <= y.num * x.den

StrongVerdict ==
    <<76, 105, 107, 101, 108, 121, 32, 113, 117, 97, 108, 105, 102, 105, 101, 100, 32, 119,
      105, 116, 104, 32, 115, 116, 114, 111, 110, 103, 32, 97, 108, 105, 103, 110, 109, 101,
      110, 116, 46>>

\* "Partially qualified; additional evidence would help."
PartialVerdict ==
    <<80, 97, 114, 116, 105, 97, 108, 108, 121, 32, 113, 117, 97, 108, 105, 102, 105, 101, 100,
      59, 32, 97, 100, 100, 105, 116, 105, 111, 110, 97, 108, 32, 101, 118, 105, 100, 101, 110,
      99, 101, 32, 119, 111, 117, 108, 100, 32, 104, 101, 108, 112, 46>>

\* "Limited evidence of fit for the role."
LimitedVerdict ==
    <<76, 105, 109, 105, 116, 101, 100, 32, 101, 118, 105, 100, 101, 110, 99, 101, 32, 111,
      102, 32, 102, 105, 116, 32, 102, 111, 114, 32, 116, 104, 101, 32, 114, 111, 108, 101,
      46>>

\* "Resume references ", "No direct mention of ", "."
ResumeReferencesLiteral == <<82, 101, 115, 117, 109, 101, 32, 114, 101, 102, 101, 114, 101, 110, 99, 101, 115, 32>>

NoDirectMentionLiteral == <<78, 111, 32, 100, 105, 114, 101, 99, 116, 32, 109, 101, 110, 116, 105, 111, 110, 32, 111, 102, 32>>

\* [...].filter(Boolean) on optional strings
FilterTruthy(values) == SelectSeq(values, LAMBDA v : v # Undefined /\ v # <<>>)

\* A plausible slip: the thresholds are inclusive.
MockVerdictInclusive(keywordScore) ==
    IF keywordScore.num >= 70 * keywordScore.den THEN StrongVerdict
    ELSE IF keywordScore.num >= 40 * keywordScore.den THEN PartialVerdict
    ELSE LimitedVerdict

\* keywordScore > 70 ? ... : keywordScore > 40 ? ... : ...
MockVerdict(keywordScore) ==
    IF keywordScore.num > 70 * keywordScore.den THEN StrongVerdict
    ELSE IF keywordScore.num > 40 * keywordScore.den THEN PartialVerdict
    ELSE LimitedVerdict

MockJobText(job) ==
    cleanJobDescription(Join(<<job.title>> \o job.responsibilities \o job.mustHaves
                                \o job.niceToHaves \o job.keywords, <<32>>))

MockResumeText(profile) ==
    cleanResumeText(Join(FilterTruthy(
        <<profile.contact.name, profile.title, profile.additionalContext>>
            \o profile.skills \o profile.tools
            \o Flatten([i \in 1..Len(profile.projects) |->
                    <<profile.projects[i].name, profile.projects[i].summary>>
                        \o profile.projects[i].skills \o profile.projects[i].outcomes])),
        <<32>>))

MockKeywordScore(job, profile) ==
    computeKeywordStats(extractTopKeywords(MockJobText(job), DefaultLimit),
                        extractTopKeywords(MockResumeText(profile), DefaultLimit)).keywordScore

buildMockResponse(job, profile) ==
    LET jobKeywords == extractTopKeywords(MockJobText(job), DefaultLimit)
        resumeKeywords == extractTopKeywords(MockResumeText(profile), DefaultLimit)
        keywordScore == computeKeywordStats(jobKeywords, resumeKeywords).keywordScore
        top == Take(resumeKeywords, 3)
        missing == Take(SelectSeq(jobKeywords, LAMBDA keyword : keyword \notin Elements(resumeKeywords)), 3)
    IN  [fit_score |-> clampScore(keywordScore),
         highlights |-> [i \in 1..Len(top) |-> ResumeReferencesLiteral \o top[i] \o <<46>>],
         gaps |-> [i \in 1..Len(missing) |-> NoDirectMentionLiteral \o missing[i] \o <<46>>],
         verdict |-> MockVerdict(keywordScore),
         llm_fit_score |-> clampScore(keywordScore),
         keyword_overlap |-> MathRound(keywordScore.num, keywordScore.den)]

(***************************************************************************)
(* SpecMock: the response of api/match without an API key, for a job with  *)
(* up to MaxJobKeywords keywords and a profile with a range of them as     *)
(* skills.                                                                 *)
(***************************************************************************)
MaxJobKeywords == 28

\* The k-th keyword of a job: "k" and two letters.
JobKeyword(k) == <<107, 97 + (k \div 26), 97 + (k % 26)>>

JobKeywordRange(lo, hi) == [i \in 1..(hi + 1 - lo) |-> JobKeyword(lo + i - 1)]

\* title "qa"
MockJobs ==
    {[title |-> <<113, 97>>, responsibilities |-> <<>>, mustHaves |-> <<>>,
      niceToHaves |-> <<>>, keywords |-> JobKeywordRange(1, n), location |-> Undefined,
      employmentType |-> Undefined] : n \in 0..MaxJobKeywords}

\* name "al"
MockProfiles ==
    {[PlainProfile(<<97, 108>>) EXCEPT !.skills = JobKeywordRange(lo, hi)] :
        lo \in {1, 3}, hi \in 0..(MaxJobKeywords + 1)}

InitMock ==
    /\ pc = "start"
    /\ arg \in [jobSpec : MockJobs, candidateProfile : MockProfiles]
    /\ parsed = <<>>
    /\ res = <<>>
    /\ res2 = <<>>
    /\ locals = <<>>
    /\ log = <<>>

\* POST without OPENAI_API_KEY: buildMockResponse(normalizedJob, normalizedProfile).
CallBuildMockResponse ==
    /\ pc = "start"
    /\ LET normalizedJob == normalizeJobSpec(JobSpecSchemaParse(arg.jobSpec))
           normalizedProfile == normalizeCandidateProfile(CandidateProfileSchemaParse(arg.candidateProfile))
       IN  /\ locals' = [keywordScore |-> MockKeywordScore(normalizedJob, normalizedProfile)]
           /\ res' = buildMockResponse(normalizedJob, normalizedProfile)
    /\ pc' = "done"
    /\ UNCHANGED <<arg, parsed, res2, log>>

NextMock == CallBuildMockResponse

SpecMock == InitMock /\ [][NextMock]_vars

\* C20: in the mock response fit_score and llm_fit_score are the rounded,
\* clamped keywordScore; the verdict is the strong-alignment message exactly
\* when the score is above 70, the partially-qualified message exactly when
\* it is above 40 and at most 70, the limited-evidence message otherwise,
\* whether the score is the raw keywordScore or the reported fit_score.
C20_MockVerdict ==
    pc = "done" =>
        LET ks == locals.keywordScore
            fit == res.fit_score
        IN  /\ fit \in 0..100
            /\ (2 * fit - 1) * ks.den <= 2 * ks.num
            /\ 2 * ks.num < (2 * fit + 1) * ks.den
            /\ res.llm_fit_score = fit
            /\ res.verdict = StrongVerdict <=> ks.num > 70 * ks.den
            /\ res.verdict = PartialVerdict <=> (ks.num > 40 * ks.den /\ ks.num <= 70 * ks.den)
            /\ res.verdict = LimitedVerdict <=> ks.num <= 40 * ks.den
            /\ res.verdict = StrongVerdict <=> fit > 70
            /\ res.verdict = PartialVerdict <=> (fit > 40 /\ fit <= 70)
            /\ res.verdict = LimitedVerdict <=> fit <= 40

\* C20 witness: a job with more keywords than the limit, a keyword score
\* that is not a whole number, and the partially-qualified verdict.
C20_Witness ==
    /\ pc = "done"
    /\ Len(arg.jobSpec.keywords) > DefaultLimit
    /\ locals.keywordScore.num % locals.keywordScore.den # 0
    /\ res.verdict = PartialVerdict
    /\ res.fit_score > 40

(***************************************************************************)
(* lib/normalizers: composeContact.                                        *)
(***************************************************************************)
\* " | "
ContactSeparator == <<32, 124, 32>>

\* A plausible slip: the absent fields are not filtered out before the join.
composeContactUnfiltered(c) ==
    [top |-> Join([i \in 1..5 |->
                      LET v == <<c.email, c.phone, c.linkedin, c.website, c.behance>>[i]
                      IN  IF v = Undefined THEN <<>> ELSE v],
                  ContactSeparator),
     bottom |-> IF c.location # Undefined /\ c.location # <<>> THEN c.location ELSE <<>>]

\* [c.email, c.phone, c.linkedin, c.website, c.behance].filter(Boolean)
\*     .join(" | "), and c.location ? c.location : ""
composeContact(c) ==
    [top |-> Join(FilterTruthy(<<c.email, c.phone, c.linkedin, c.website, c.behance>>),
                  ContactSeparator),
     bottom |-> IF c.location # Undefined /\ c.location # <<>> THEN c.location ELSE <<>>]

(***************************************************************************)
(* Specification of composeContact: every field is absent, empty or one    *)
(* of a few values, so that every subset of present fields occurs.         *)
(***************************************************************************)
\* undefined, "", "a", "b c", "@"
ContactValues == {Undefined, <<>>, <<97>>, <<98, 32, 99>>, <<64>>}

ContactInputs ==
    [email : ContactValues, phone : ContactValues, linkedin : ContactValues,
     website : ContactValues, behance : ContactValues,
     location : {Undefined, <<>>, <<97>>, <<76>>}]

InitContact ==
    /\ pc = "start"
    /\ arg \in ContactInputs
    /\ parsed = Undefined
    /\ res = Undefined
    /\ res2 = Undefined
    /\ locals = Undefined
    /\ log = <<>>

CallComposeContact ==
    /\ pc = "start"
    /\ res' = composeContact(arg)
    /\ pc' = "done"
    /\ UNCHANGED <<arg, parsed, res2, locals, log>>

NextContact == CallComposeContact

SpecContact == InitContact /\ [][NextContact]_vars

\* The five fields of top, in the order of the contact line.
TopFields(c) == <<c.email, c.phone, c.linkedin, c.website, c.behance>>

\* The positions of the present (defined, non-empty) fields.
PresentFields(c) == {i \in 1..5 : TopFields(c)[i] # Undefined /\ TopFields(c)[i] # <<>>}

\* The k-th present field.
PresentField(c, k) ==
    LET i == CHOOSE j \in PresentFields(c) :
                 Cardinality({m \in PresentFields(c) : m <= j}) = k
    IN  TopFields(c)[i]

HasSubstring(s, t) == \E i \in 1..(Len(s) - Len(t) + 1) : SubSeq(s, i, i + Len(t) - 1) = t

\* C21: top is made of exactly the present fields among email, phone,
\* linkedin, website, behance, in that order, with one " | " between
\* neighbours and no separator at the start, at the end or doubled; bottom
\* is the location or the empty string; the location has no part in top.
C21_ComposeContact ==
    pc = "done" =>
        LET n == Cardinality(PresentFields(arg))
            pieces == Split(res.top, 124)
        IN  /\ IF n = 0 THEN res.top = <<>>
               ELSE /\ Len(pieces) = n
                    /\ \A k \in 1..n :
                           pieces[k] = (IF k > 1 THEN <<32>> ELSE <<>>)
                                       \o PresentField(arg, k)
                                       \o (IF k < n THEN <<32>> ELSE <<>>)
            /\ Len(res.top) < 3 \/ SubSeq(res.top, 1, 3) # ContactSeparator
            /\ Len(res.top) < 3
                   \/ SubSeq(res.top, Len(res.top) - 2, Len(res.top)) # ContactSeparator
            /\ ~HasSubstring(res.top, ContactSeparator \o ContactSeparator)
            /\ ~HasSubstring(res.top, <<124, 124>>)
            /\ res.bottom = (IF arg.location = Undefined THEN <<>> ELSE arg.location)
            /\ res.top = composeContact([arg EXCEPT !.location = Undefined]).top
            /\ res.top = composeContact([arg EXCEPT !.location = <<76>>]).top

\* C21 witness: email and behance present with absent and empty fields in
\* between, as in the repository's test, and a location.
C21_Witness ==
    /\ pc = "done"
    /\ arg.email = <<64>>
    /\ arg.phone = Undefined
    /\ arg.linkedin = <<>>
    /\ arg.website = Undefined
    /\ arg.behance = <<98, 32, 99>>
    /\ arg.location = <<76>>
    /\ res.top = <<64, 32, 124, 32, 98, 32, 99>>
    /\ res.bottom = <<76>>

(***************************************************************************)
(* api/parse-pdf: the heuristic parser buildFallbackProfile.  Its regular  *)
(* expressions are modelled by the leftmost match a backtracking engine    *)
(* finds, greedy quantifiers included.                                     *)
(***************************************************************************)
\* The length of the maximal run of characters of class that begins at
\* position i of s.
RunLen(s, i, class) ==
    LET stops == {k \in i..Len(s) : s[k] \notin class}
    IN  IF stops = {} THEN Max(Len(s) - i + 1, 0)
        ELSE (CHOOSE k \in stops : \A m \in stops : k <= m) - i

\* [A-Z0-9._%+-] and [A-Z0-9.-] under the i flag
EmailLocalChars == Letters \cup Digits \cup {46, 95, 37, 43, 45}

EmailDomainChars == Letters \cup Digits \cup {46, 45}

\* /[A-Z0-9._%+-]+@[A-Z0-9.-]+\.[A-Z]{2,}/i tried at position i: the position
\* of the last character of the match, or 0.  The local part runs up to the
\* "@"; the greedy domain gives back characters down to the last "." that
\* has a domain character in front of it and two letters behind it.
EmailMatchEnd(s, i) ==
    LET l == RunLen(s, i, EmailLocalChars)
        j == i + l
    IN  IF l = 0 \/ j > Len(s) \/ s[j] # 64 THEN 0
        ELSE LET m == RunLen(s, j + 1, EmailDomainChars)
                 dots == {p \in (j + 2)..(j + m) :
                             s[p] = 46 /\ RunLen(s, p + 1, Letters) >= 2}
             IN  IF dots = {} THEN 0
                 ELSE LET p == CHOOSE q \in dots : \A r \in dots : r <= q
                      IN  p + RunLen(s, p + 1, Letters)

\* text.match(re)?.[0] for the e-mail expression
emailMatch(text) ==
    LET starts == {i \in 1..Len(text) : EmailMatchEnd(text, i) > 0}
    IN  IF starts = {} THEN Undefined
        ELSE LET i == CHOOSE k \in starts : \A m \in starts : k <= m
             IN  SubSeq(text, i, EmailMatchEnd(text, i))

\* x.replace(/[.,;]+$/, "")
RECURSIVE StripTrailing(_, _)
StripTrailing(s, class) ==
    IF s # <<>> /\ s[Len(s)] \in class
    THEN StripTrailing(SubSeq(s, 1, Len(s) - 1), class) ELSE s

\* [\d\s().-]
PhoneChars == Digits \cup WhiteSpace \cup {40, 41, 46, 45}

\* /(\+?\d[\d\s().-]{7,}\d)/ tried at position i: the position of the last
\* character of the match, or 0.  Behind the first digit at least seven
\* characters of the class, then a digit: the last digit of the run that
\* lies at least eight places behind the first.
PhoneMatchEnd(s, i) ==
    LET d == IF s[i] = 43 THEN i + 1 ELSE i
    IN  IF d > Len(s) \/ s[d] \notin Digits THEN 0
        ELSE LET m == RunLen(s, d + 1, PhoneChars)
                 ends == {e \in (d + 8)..(d + m) : s[e] \in Digits}
             IN  IF ends = {} THEN 0
                 ELSE CHOOSE e \in ends : \A f \in ends : f <= e

\* text.match(re)?.[0] for the phone expression
phoneMatch(text) ==
    LET starts == {i \in 1..Len(text) : PhoneMatchEnd(text, i) > 0}
    IN  IF starts = {} THEN Undefined
        ELSE LET i == CHOOSE k \in starts : \A m \in starts : k <= m
             IN  SubSeq(text, i, PhoneMatchEnd(text, i))


\* The headings of SECTION_HEADINGS, lower case.
SECTION_HEADINGS ==
    {<<97, 98, 111, 117, 116>>,
     <<112, 114, 111, 102, 105, 108, 101>>,
     <<115, 117, 109, 109, 97, 114, 121>>,
     <<111, 98, 106, 101, 99, 116, 105, 118, 101>>,
     <<119, 104, 97, 116, 32, 105, 39, 118, 101, 32, 100, 111, 110, 101>>,
     <<119, 104, 97, 116, 32, 105, 32, 119, 97, 110, 116, 32, 116, 111, 32, 97, 99, 104, 105,
       101, 118, 101>>,
     <<101, 120, 112, 101, 114, 105, 101, 110, 99, 101>>,
     <<119, 111, 114, 107, 32, 101, 120, 112, 101, 114, 105, 101, 110, 99, 101>>,
     <<112, 114, 111, 102, 101, 115, 115, 105, 111, 110, 97, 108, 32, 101, 120, 112, 101, 114,
       105, 101, 110, 99, 101>>,
     <<112, 114, 111, 106, 101, 99, 116, 115>>,
     <<115, 107, 105, 108, 108, 115>>,
     <<116, 101, 99, 104, 110, 105, 99, 97, 108, 32, 115, 107, 105, 108, 108, 115>>,
     <<116, 111, 111, 108, 115>>,
     <<116, 111, 111, 108, 98, 111, 120>>,
     <<101, 100, 117, 99, 97, 116, 105, 111, 110>>,
     <<99, 101, 114, 116, 105, 102, 105, 99, 97, 116, 105, 111, 110, 115>>,
     <<108, 97, 110, 103, 117, 97, 103, 101>>,
     <<108, 97, 110, 103, 117, 97, 103, 101, 115>>,
     <<99, 111, 110, 116, 97, 99, 116>>,
     <<119, 105, 108, 108, 105, 110, 103, 32, 116, 111, 32, 114, 101, 108, 111, 99, 97, 116,
       101>>}

\* "experience", "work experience", "professional experience"
ExperienceHeadings ==
    {<<101, 120, 112, 101, 114, 105, 101, 110, 99, 101>>,
     <<119, 111, 114, 107, 32, 101, 120, 112, 101, 114, 105, 101, 110, 99, 101>>,
     <<112, 114, 111, 102, 101, 115, 115, 105, 111, 110, 97, 108, 32, 101, 120, 112, 101, 114,
       105, 101, 110, 99, 101>>}

\* The class of BULLET_PREFIX: [\s\t•*·\-–—²▪›»●◦]
BulletPrefixChars ==
    WhiteSpace \cup {8226, 42, 183, 45, 8211, 8212, 178, 9642, 8250, 187, 9679, 9702}

\* line.replace(BULLET_PREFIX, "").replace(/[<>]+$/, "").trim()
sanitizeLine(line) ==
    Trim(StripTrailing(Drop(line, RunLen(line, 1, BulletPrefixChars)), {60, 62}))

\* The characters "." does not match.
LineTerminators == {10, 13, 8232, 8233}

\* cleaned.match(/^(.+?)\s*@\s*(.+)$/): the position of the "@" the match
\* uses, or 0.  The lazy first group ends at the first "@" that has a
\* character in front of it and one behind it.
JobMatchAt(cleaned) ==
    LET ats == {k \in 2..(Len(cleaned) - 1) : cleaned[k] = 64}
    IN  IF ats = {} THEN 0
        ELSE LET k == CHOOSE a \in ats : \A b \in ats : a <= b
                 before == TrimEnd(SubSeq(cleaned, 1, k - 1))
                 behind == TrimStart(SubSeq(cleaned, k + 1, Len(cleaned)))
             IN  IF /\ before # <<>>
                    /\ behind # <<>>
                    /\ \A i \in 1..Len(before) : before[i] \notin LineTerminators
                    /\ \A i \in 1..Len(behind) : behind[i] \notin LineTerminators
                 THEN k ELSE 0

\* jobMatch?.[1]?.trim() and jobMatch?.[2]?.trim()
JobRole(cleaned) == Trim(SubSeq(cleaned, 1, JobMatchAt(cleaned) - 1))

JobCompany(cleaned) == Trim(SubSeq(cleaned, JobMatchAt(cleaned) + 1, Len(cleaned)))

\* A plausible slip: the outcomes are pushed as collected, duplicates kept.
pushCurrentKeepDuplicates(st) ==
    [st EXCEPT
        !.projects = st.projects \o
            [i \in 1..Len(st.current) |->
                [name |-> Trim(st.current[i].name),
                 summary |-> Trim(st.current[i].summary),
                 outcomes |-> FilterNonEmpty(MapTrim(st.current[i].outcomes))]],
        !.current = <<>>]

\* pushCurrent(): the current entry, when there is one, is appended to
\* projects with its outcomes trimmed, the empty ones dropped, duplicates
\* removed.  current is a list of no or one entry.
pushCurrent(st) ==
    [st EXCEPT
        !.projects = st.projects \o
            [i \in 1..Len(st.current) |->
                [name |-> Trim(st.current[i].name),
                 summary |-> Trim(st.current[i].summary),
                 outcomes |-> Dedupe(FilterNonEmpty(MapTrim(st.current[i].outcomes)))]],
        !.current = <<>>]

\* The state of extractProjects in front of its loop.
ProjectsStart == [projects |-> <<>>, inExperience |-> FALSE, current |-> <<>>]

\* One turn of the loop of extractProjects, for rawLine.
ProjectsStep(st, rawLine) ==
    LET trimmed == Trim(rawLine)
        cleaned == sanitizeLine(trimmed)
        normalized == ToLower(cleaned)
    IN  IF trimmed = <<>> THEN st
        ELSE IF normalized \in SECTION_HEADINGS
        THEN IF normalized \in ExperienceHeadings
             THEN [pushCurrent(st) EXCEPT !.inExperience = TRUE]
             ELSE [(IF st.inExperience THEN pushCurrent(st) ELSE st)
                       EXCEPT !.inExperience = FALSE]
        ELSE IF ~st.inExperience THEN st
        ELSE IF JobMatchAt(cleaned) > 0
        THEN [pushCurrent(st) EXCEPT
                 !.current = <<[name |-> JobCompany(cleaned),
                                summary |-> JobRole(cleaned),
                                outcomes |-> <<>>]>>]
        ELSE IF st.current = <<>> THEN st
        ELSE IF cleaned # <<>>
        THEN [st EXCEPT !.current[1].outcomes = Append(@, cleaned)]
        ELSE st

\* "Summary forthcoming."
SummaryForthcomingLiteral ==
    <<83, 117, 109, 109, 97, 114, 121, 32, 102, 111, 114, 116, 104, 99, 111, 109, 105, 110,
      103, 46>>

\* The return statement of extractProjects: the last pushCurrent(), the
\* filter and the map.
ProjectsResult(st) ==
    LET pushed == pushCurrent(st).projects
        kept == SelectSeq(pushed, LAMBDA p :
                    p.name # <<>> \/ p.summary # <<>> \/ Len(p.outcomes) > 0)
    IN  [i \in 1..Len(kept) |->
            [name |-> OrElse(OrElse(kept[i].name, kept[i].summary), UntitledProjectLiteral),
             summary |-> OrElse(OrElse(kept[i].summary, kept[i].name),
                                SummaryForthcomingLiteral),
             skills |-> <<>>,
             outcomes |-> kept[i].outcomes]]

RECURSIVE ProjectsLoop(_, _)
ProjectsLoop(st, lines) ==
    IF lines = <<>> THEN st
    ELSE ProjectsLoop(ProjectsStep(st, Head(lines)), Tail(lines))

extractProjects(lines) == ProjectsResult(ProjectsLoop(ProjectsStart, lines))

(***************************************************************************)
(* SpecProjects: extractProjects runs over the lines of a résumé, one turn *)
(* of its loop per step, and returns.                                      *)
(***************************************************************************)
MaxProjectLines == 4

\* "Experience", "* Skills", "Dev @ Acme", "QA@Beta>>", "Built x",
\* "- Built x ", "--", " ", "a@"
ProjectLines ==
    {<<69, 120, 112, 101, 114, 105, 101, 110, 99, 101>>,
     <<42, 32, 83, 107, 105, 108, 108, 115>>,
     <<68, 101, 118, 32, 64, 32, 65, 99, 109, 101>>,
     <<81, 65, 64, 66, 101, 116, 97, 62, 62>>,
     <<66, 117, 105, 108, 116, 32, 120>>,
     <<45, 32, 66, 117, 105, 108, 116, 32, 120, 32>>,
     <<45, 45>>,
     <<32>>,
     <<97, 64>>}

ProjectInputs == SeqsUpTo(ProjectLines, MaxProjectLines)

InitProjects ==
    /\ pc = "loop"
    /\ arg \in ProjectInputs
    /\ parsed = Undefined
    /\ res = Undefined
    /\ res2 = Undefined
    /\ locals = [i |-> 1, st |-> ProjectsStart]
    /\ log = <<>>

\* for (const rawLine of lines) { ... }
ProjectsLine ==
    /\ pc = "loop"
    /\ locals.i <= Len(arg)
    /\ locals' = [i |-> locals.i + 1, st |-> ProjectsStep(locals.st, arg[locals.i])]
    /\ UNCHANGED <<pc, arg, parsed, res, res2, log>>

\* pushCurrent(); return projects.filter(...).map(...)
ProjectsReturn ==
    /\ pc = "loop"
    /\ locals.i > Len(arg)
    /\ res' = ProjectsResult(locals.st)
    /\ pc' = "done"
    /\ UNCHANGED <<arg, parsed, res2, locals, log>>

NextProjects == ProjectsLine \/ ProjectsReturn

SpecProjects == InitProjects /\ [][NextProjects]_vars

\* The text of line i without its bullet prefix, as the claim reads a line.
LineText(i) == sanitizeLine(Trim(arg[i]))

IsHeadingLine(i) == ToLower(LineText(i)) \in SECTION_HEADINGS

\* Line i lies inside an experience-family section: the nearest heading in
\* front of it is one of the experience family.
InsideExperience(i) ==
    \E j \in 1..(i - 1) :
        /\ ToLower(LineText(j)) \in ExperienceHeadings
        /\ \A m \in (j + 1)..(i - 1) : ~IsHeadingLine(m)

\* The "@" of a line of the form "role @ company": the first one with text
\* on both sides.
RoleAtCompany(i) ==
    {k \in 1..Len(LineText(i)) :
        /\ LineText(i)[k] = 64
        /\ Trim(SubSeq(LineText(i), 1, k - 1)) # <<>>
        /\ Trim(SubSeq(LineText(i), k + 1, Len(LineText(i)))) # <<>>
        /\ \A m \in 1..(k - 1) :
               ~(/\ LineText(i)[m] = 64
                 /\ Trim(SubSeq(LineText(i), 1, m - 1)) # <<>>)}

\* The lines that start an entry, and the n-th of them.
EntryLines == {i \in 1..Len(arg) : ~IsHeadingLine(i) /\ InsideExperience(i) /\ RoleAtCompany(i) # {}}

EntryLine(n) == CHOOSE i \in EntryLines : Cardinality({j \in EntryLines : j <= i}) = n

\* The lines behind entry line i up to the next entry line or heading.
EntryBody(i) ==
    {m \in (i + 1)..Len(arg) :
        /\ LineText(m) # <<>>
        /\ \A j \in (i + 1)..m : ~IsHeadingLine(j) /\ j \notin EntryLines}

\* C26: extractProjects returns one entry per "role @ company" line inside
\* an experience-family section, in input order, with name = company,
\* summary = role and no skills; its outcomes are the distinct non-empty
\* texts of the lines between that line and the next such line, heading or
\* end of input, each once, in order of first appearance; lines outside an
\* experience section contribute nothing, and while the loop is outside one
\* no entry is open.
C26_ExtractProjects ==
    /\ (pc = "loop" /\ ~locals.st.inExperience) => locals.st.current = <<>>
    /\ pc = "done" =>
        /\ Len(res) = Cardinality(EntryLines)
        /\ \A n \in 1..Len(res) :
            LET i == EntryLine(n)
                k == CHOOSE a \in RoleAtCompany(i) : TRUE
                out == res[n].outcomes
            IN  /\ res[n].name = Trim(SubSeq(LineText(i), k + 1, Len(LineText(i))))
                /\ res[n].summary = Trim(SubSeq(LineText(i), 1, k - 1))
                /\ res[n].name # <<>> /\ res[n].summary # <<>>
                /\ res[n].skills = <<>>
                /\ \A a \in 1..Len(out) : out[a] # <<>> /\ out[a] = Trim(out[a])
                /\ \A a, b \in 1..Len(out) : a # b => out[a] # out[b]
                /\ {out[a] : a \in 1..Len(out)} = {LineText(m) : m \in EntryBody(i)}
                /\ \A a, b \in 1..Len(out) :
                       a < b =>
                           \E m \in EntryBody(i) :
                               /\ LineText(m) = out[a]
                               /\ \A q \in EntryBody(i) : LineText(q) = out[b] => m < q

\* C26 witness: under an experience heading a "role @ company" line was
\* followed by the same outcome twice, once with a bullet prefix; one entry
\* was returned at the end of the input, with the outcome once.
C26_Witness ==
    /\ pc = "done"
    /\ Len(arg) = 4
    /\ arg[1] = <<69, 120, 112, 101, 114, 105, 101, 110, 99, 101>>
    /\ arg[2] = <<68, 101, 118, 32, 64, 32, 65, 99, 109, 101>>
    /\ arg[3] = <<66, 117, 105, 108, 116, 32, 120>>
    /\ arg[4] = <<45, 32, 66, 117, 105, 108, 116, 32, 120, 32>>
    /\ res = <<[name |-> <<65, 99, 109, 101>>, summary |-> <<68, 101, 118>>, skills |-> <<>>,
               outcomes |-> <<<<66, 117, 105, 108, 116, 32, 120>>>>]>>

\* s.startsWith(prefix) and s.includes(part)
StartsWith(s, prefix) == Len(prefix) <= Len(s) /\ SubSeq(s, 1, Len(prefix)) = prefix

Includes(s, part) == \E i \in 1..(Len(s) - Len(part) + 1) : SubSeq(s, i, i + Len(part) - 1) = part

\* lines[0]?.replace(/\s{2,}.+$/, "").trim() || "Candidate": the first line
\* is cut at its first run of two or more white-space characters that is
\* followed by text up to the end of the line.
FallbackName(lines) ==
    IF lines = <<>> THEN CandidateLiteral
    ELSE LET first == lines[1]
             cuts == {i \in 1..(Len(first) - 1) :
                         /\ first[i] \in WhiteSpace /\ first[i + 1] \in WhiteSpace
                         /\ LET tail == i + RunLen(first, i, WhiteSpace)
                            IN  /\ tail <= Len(first)
                                /\ \A k \in tail..Len(first) : first[k] \notin LineTerminators}
             kept == IF cuts = {} THEN first
                     ELSE SubSeq(first, 1, (CHOOSE i \in cuts : \A j \in cuts : i <= j) - 1)
         IN  OrElse(Trim(kept), CandidateLiteral)

\* developer, engineer, designer, manager, specialist
TitleWords ==
    {<<100, 101, 118, 101, 108, 111, 112, 101, 114>>,
     <<101, 110, 103, 105, 110, 101, 101, 114>>,
     <<100, 101, 115, 105, 103, 110, 101, 114>>,
     <<109, 97, 110, 97, 103, 101, 114>>,
     <<115, 112, 101, 99, 105, 97, 108, 105, 115, 116>>}

\* /\b(developer|engineer|designer|manager|specialist)\b/i.test(line)
HasTitleWord(line) ==
    \E w \in TitleWords : \E i \in 1..Len(line) :
        MatchWord(line, i, w) /\ WordBoundary(line, i) /\ WordBoundary(line, i + Len(w))

\* The first element of list that satisfies Test, or undefined.
FindFirst(list, Test(_)) ==
    LET hits == {i \in 1..Len(list) : Test(list[i])}
    IN  IF hits = {} THEN Undefined
        ELSE list[CHOOSE i \in hits : \A j \in hits : i <= j]

\* lines.slice(1, 6).find(...)
FallbackTitle(lines) == FindFirst(SubSeq(lines, 2, Min(6, Len(lines))), HasTitleWord)

\* /https?:\/\/[^\s)]+/gi tried at position i: the position of the last
\* character of the match, or 0.
UrlMatchEnd(s, i) ==
    LET h == IF MatchWord(s, i, <<104, 116, 116, 112>>)
             THEN (IF i + 4 <= Len(s) /\ s[i + 4] \in {115, 83} THEN i + 5 ELSE i + 4)
             ELSE 0
    IN  IF h = 0 \/ h + 3 > Len(s) \/ SubSeq(s, h, h + 2) # <<58, 47, 47>> THEN 0
        ELSE IF s[h + 3] \in WhiteSpace \cup {41} THEN 0
        ELSE LET stops == {k \in (h + 3)..Len(s) : s[k] \in WhiteSpace \cup {41}}
             IN  IF stops = {} THEN Len(s)
                 ELSE (CHOOSE k \in stops : \A m \in stops : k <= m) - 1

\* Array.from(text.matchAll(re)).map((match) => match[0].replace(/[.,)]+$/, ""))
\* from position i on: the matches from left to right, none overlapping.
RECURSIVE UrlMatches(_, _)
UrlMatches(s, i) ==
    LET starts == {k \in i..Len(s) : UrlMatchEnd(s, k) > 0}
    IN  IF starts = {} THEN <<>>
        ELSE LET k == CHOOSE a \in starts : \A b \in starts : a <= b
                 e == UrlMatchEnd(s, k)
             IN  <<StripTrailing(SubSeq(s, k, e), {46, 44, 41})>> \o UrlMatches(s, e + 1)

\* toUrl: new URL(value).toString(), undefined when value is falsy or the
\* constructor throws.  For the http and https URLs IsUrl accepts, the
\* serialization has the scheme and the host in lower case and "/" for an
\* empty path.
toUrl(value) ==
    IF value = Undefined \/ value = <<>> \/ ~IsUrl(value) THEN Undefined
    ELSE LET c == UrlSchemeEnd(value)
             rest == SubSeq(value, UrlHostEnd(value) + 1, Len(value))
         IN  ToLower(SubSeq(value, 1, c)) \o <<47, 47>>
             \o ToLower(SubSeq(value, UrlHostStart(value), UrlHostEnd(value)))
             \o (IF rest = <<>> \/ rest[1] \in {63, 35} THEN <<47>> ELSE <<>>)
             \o [i \in 1..Len(rest) |-> IF rest[i] = 92 THEN 47 ELSE rest[i]]

\* "linkedin"
LinkedinLiteral == <<108, 105, 110, 107, 101, 100, 105, 110>>

\* urlMatches.find((url) => url.toLowerCase().includes("linkedin"))
FallbackLinkedin(urlMatches) ==
    FindFirst(urlMatches, LAMBDA url : Includes(ToLower(url), LinkedinLiteral))

\* urlMatches.find((url) => url !== linkedin)
FallbackPortfolio(urlMatches) ==
    FindFirst(urlMatches, LAMBDA url : url # FallbackLinkedin(urlMatches))

\* "willing to relocate"
RelocateLiteral ==
    <<119, 105, 108, 108, 105, 110, 103, 32, 116, 111, 32, 114, 101, 108, 111, 99, 97, 116, 101>>

\* /[A-Za-z]+(?:\s*[\/,]\s*[A-Za-z]+)+/.test(line): a "/" or "," whose
\* nearest neighbours that are not white space are letters.
LooksLikeLocation(line) ==
    \E p \in 2..(Len(line) - 1) :
        /\ line[p] \in {47, 44}
        /\ \E a \in 1..(p - 1) :
               line[a] \in Letters /\ \A m \in (a + 1)..(p - 1) : line[m] \in WhiteSpace
        /\ \E b \in (p + 1)..Len(line) :
               line[b] \in Letters /\ \A m \in (p + 1)..(b - 1) : line[m] \in WhiteSpace

\* The location of buildFallbackProfile.
FallbackLocation(lines) ==
    LET relocate == {i \in 1..Len(lines) : Includes(ToLower(lines[i]), RelocateLiteral)}
        candidate ==
            IF relocate = {} THEN Undefined
            ELSE LET r == CHOOSE i \in relocate : \A j \in relocate : i <= j
                 IN  FindFirst(SubSeq(lines, r, Min(r + 3, Len(lines))),
                               LAMBDA line : Includes(line, <<47>>) \/ Includes(line, <<44>>))
    IN  IF candidate # Undefined /\ candidate # <<>> THEN candidate
        ELSE FindFirst(lines, LAMBDA line :
                 /\ LooksLikeLocation(line)
                 /\ ~Includes(ToLower(line), <<100, 101, 118, 101, 108, 111, 112, 101, 114>>)
                 /\ ~Includes(ToLower(line), <<100, 101, 115, 105, 103, 110, 101, 114>>))

\* s.split(/[,;•·|]/)
RECURSIVE SplitAny(_, _)
SplitAny(s, class) ==
    IF \E i \in 1..Len(s) : s[i] \in class
    THEN LET i == CHOOSE k \in 1..Len(s) : s[k] \in class /\ \A m \in 1..(k - 1) : s[m] \notin class
         IN  <<SubSeq(s, 1, i - 1)>> \o SplitAny(Drop(s, i), class)
    ELSE <<s>>

\* part.replace(/^[^A-Za-z0-9+]+/, "").trim()
SectionCandidate(part) ==
    LET starts == {k \in 1..Len(part) : part[k] \in Letters \cup Digits \cup {43}}
    IN  IF starts = {} THEN <<>>
        ELSE Trim(Drop(part, (CHOOSE k \in starts : \A m \in starts : k <= m) - 1))

\* One turn of the loop of extractSectionList; done stands for its break.
SectionStep(st, line, label) ==
    LET cleaned == sanitizeLine(Trim(line))
        normalized == ToLower(cleaned)
        candidates == FilterNonEmpty([i \in 1..Len(SplitAny(cleaned, {44, 59, 8226, 183, 124})) |->
                          SectionCandidate(SplitAny(cleaned, {44, 59, 8226, 183, 124})[i])])
    IN  IF st.done THEN st
        ELSE IF ~st.active
        THEN [st EXCEPT !.active = normalized = label \/ StartsWith(normalized, label \o <<58>>)]
        ELSE IF cleaned = <<>>
        THEN [st EXCEPT !.done = st.values # <<>>]
        ELSE IF normalized \in SECTION_HEADINGS /\ normalized # label
        THEN [st EXCEPT !.done = TRUE]
        ELSE IF StartsWith(normalized, label) THEN st
        ELSE [st EXCEPT !.values =
                 Dedupe(@ \o (IF candidates # <<>> THEN candidates ELSE <<cleaned>>))]

RECURSIVE SectionLoop(_, _, _)
SectionLoop(st, lines, label) ==
    IF lines = <<>> THEN st
    ELSE SectionLoop(SectionStep(st, Head(lines), label), Tail(lines), label)

\* extractSectionList(lines, label), label in lower case
extractSectionList(lines, label) ==
    SectionLoop([active |-> FALSE, done |-> FALSE, values |-> <<>>], lines, label).values

\* What a throwing call leaves behind.
Threw == [threw |-> TRUE]

\* buildFallbackProfile(text): the normalized profile, or Threw when
\* CandidateProfileSchema.parse rejects what the heuristics collected.
buildFallbackProfile(text) ==
    LET lines == FilterNonEmpty(MapTrim(SplitLines(text)))
        email == emailMatch(text)
        phone == phoneMatch(text)
        urlMatches == UrlMatches(text, 1)
        raw == [contact |->
                   [name |-> FallbackName(lines),
                    email |-> IF email = Undefined THEN Undefined
                              ELSE Trim(StripTrailing(email, {46, 44, 59})),
                    phone |-> IF phone = Undefined THEN Undefined
                              ELSE Trim(CollapseWhitespace(phone)),
                    linkedin |-> toUrl(FallbackLinkedin(urlMatches)),
                    portfolio |-> toUrl(FallbackPortfolio(urlMatches)),
                    website |-> Undefined,
                    behance |-> Undefined],
                title |-> FallbackTitle(lines),
                years |-> Undefined,
                location |-> FallbackLocation(lines),
                skills |-> extractSectionList(lines, <<115, 107, 105, 108, 108, 115>>),
                tools |-> extractSectionList(lines, <<116, 111, 111, 108, 115>>),
                projects |-> extractProjects(lines),
                additionalContext |-> Undefined]
    IN  IF CandidateProfileSchemaAccepts(raw)
        THEN [threw |-> FALSE,
              profile |-> normalizeCandidateProfile(CandidateProfileSchemaParse(raw))]
        ELSE Threw

(***************************************************************************)
(* SpecHeuristic: buildFallbackProfile applied to the text of a résumé.    *)
(* The text is put together from lines a résumé may hold; POST hands over  *)
(* the trimmed text and only when it is not empty.                         *)
(***************************************************************************)
MaxResumeChunks == 3

\* "Jane Doe", "jane@x.co", "j.@x.co", "2020 - 2023", "+1 555 123 4567",
\* "https://linkedin.com/in/j.", "http://.", "HTTP://X.dev)",
\* "Web Developer", "Izmir, TR", "Experience", "Dev @ Acme", "Skills",
\* "a, b", each with its line feed.
ResumeChunks ==
    {<<74, 97, 110, 101, 32, 68, 111, 101, 10>>,
     <<106, 97, 110, 101, 64, 120, 46, 99, 111, 10>>,
     <<106, 46, 64, 120, 46, 99, 111, 10>>,
     <<50, 48, 50, 48, 32, 45, 32, 50, 48, 50, 51, 10>>,
     <<43, 49, 32, 53, 53, 53, 32, 49, 50, 51, 32, 52, 53, 54, 55, 10>>,
     <<104, 116, 116, 112, 115, 58, 47, 47, 108, 105, 110, 107, 101, 100, 105, 110, 46,
       99, 111, 109, 47, 105, 110, 47, 106, 46, 10>>,
     <<104, 116, 116, 112, 58, 47, 47, 46, 10>>,
     <<72, 84, 84, 80, 58, 47, 47, 88, 46, 100, 101, 118, 41, 10>>,
     <<87, 101, 98, 32, 68, 101, 118, 101, 108, 111, 112, 101, 114, 10>>,
     <<73, 122, 109, 105, 114, 44, 32, 84, 82, 10>>,
     <<69, 120, 112, 101, 114, 105, 101, 110, 99, 101, 10>>,
     <<68, 101, 118, 32, 64, 32, 65, 99, 109, 101, 10>>,
     <<83, 107, 105, 108, 108, 115, 10>>,
     <<97, 44, 32, 98, 10>>}

ResumeTexts == {Trim(Flatten(cs)) : cs \in SeqsUpTo(ResumeChunks, MaxResumeChunks) \ {<<>>}}

InitHeuristic ==
    /\ pc = "start"
    /\ arg \in ResumeTexts
    /\ parsed = Undefined
    /\ res = Undefined
    /\ res2 = Undefined
    /\ locals = Undefined
    /\ log = <<>>

CallBuildFallbackProfile ==
    /\ pc = "start"
    /\ res' = buildFallbackProfile(arg)
    /\ pc' = "done"
    /\ UNCHANGED <<arg, parsed, res2, locals, log>>

NextHeuristic == CallBuildFallbackProfile

SpecHeuristic == InitHeuristic /\ [][NextHeuristic]_vars

\* C24: for every non-empty résumé text buildFallbackProfile returns
\* without raising a profile that conforms to CandidateProfileSchema, in
\* which email is absent or an e-mail address, linkedin and portfolio are
\* absent or URLs, and phone, title and location are absent or non-empty
\* strings.
C24_HeuristicNeverFails ==
    pc = "done" =>
        /\ ~res.threw
        /\ CandidateProfileSchemaAccepts(res.profile)
        /\ res.profile.contact.email = Undefined \/ IsEmail(res.profile.contact.email)
        /\ res.profile.contact.linkedin = Undefined \/ IsUrl(res.profile.contact.linkedin)
        /\ res.profile.contact.portfolio = Undefined \/ IsUrl(res.profile.contact.portfolio)
        /\ res.profile.contact.phone # <<>>
        /\ res.profile.title # <<>>
        /\ res.profile.location # <<>>

DigitCount(s) == Cardinality({i \in 1..Len(s) : s[i] \in Digits})

\* The first run of digits, white space and ( ) . - in text that holds at
\* least nine digits, from its first digit (with the "+" in front of it if
\* there is one) to its last; undefined when there is none.
FirstPhoneRun(text) ==
    LET starts == {i \in 1..Len(text) :
                      /\ text[i] \in Digits
                      /\ DigitCount(SubSeq(text, i, i + RunLen(text, i, PhoneChars) - 1)) >= 9}
    IN  IF starts = {} THEN Undefined
        ELSE LET i == CHOOSE k \in starts : \A m \in starts : k <= m
                 run == SubSeq(text, i, i + RunLen(text, i, PhoneChars) - 1)
                 from == IF i > 1 /\ text[i - 1] = 43 THEN i - 1 ELSE i
             IN  SubSeq(text, from, i + Len(TrimEnd(StripTrailing(run, PhoneChars \ Digits))) - 1)

\* C25: a contact.phone set by the heuristic parser holds at least nine
\* digits and is the first run of digits and punctuation in the text that
\* does; a run with fewer digits, such as "2020 - 2023", is not reported.
C25_PhoneHasNineDigits ==
    (pc = "done" /\ ~res.threw /\ res.profile.contact.phone # Undefined) =>
        /\ DigitCount(res.profile.contact.phone) >= 9
        /\ FirstPhoneRun(arg) # Undefined
        /\ res.profile.contact.phone = Trim(CollapseWhitespace(FirstPhoneRun(arg)))

(***************************************************************************)
(* api/match: the data the handler computes for a valid request.           *)
(***************************************************************************)
\* collectEvidenceStrings(profile)
collectEvidenceStrings(profile) ==
    FilterTruthy(
        <<profile.contact.name, Coalesce(profile.title, <<>>),
          Coalesce(profile.additionalContext, <<>>)>>
        \o profile.skills \o profile.tools
        \o Flatten([i \in 1..Len(profile.projects) |-> profile.projects[i].skills])
        \o Flatten([i \in 1..Len(profile.projects) |-> profile.projects[i].outcomes]))

\* combinedJob of POST
CombinedJob(normalizedJob) ==
    cleanJobDescription(Join(<<normalizedJob.title>> \o normalizedJob.responsibilities
                                \o normalizedJob.mustHaves \o normalizedJob.niceToHaves
                                \o normalizedJob.keywords, <<32>>))

\* resumeEvidence of POST
ResumeEvidence(normalizedProfile) ==
    cleanResumeText(Join(FilterTruthy(
        <<normalizedProfile.contact.name, normalizedProfile.title,
          normalizedProfile.location, normalizedProfile.additionalContext>>
            \o collectEvidenceStrings(normalizedProfile)), <<32>>))

\* The locals of POST behind line 180.
MatchLocals(request) ==
    LET normalizedJob == normalizeJobSpec(JobSpecSchemaParse(request.jobSpec))
        normalizedProfile ==
            normalizeCandidateProfile(CandidateProfileSchemaParse(request.candidateProfile))
        combinedJob == CombinedJob(normalizedJob)
        resumeEvidence == ResumeEvidence(normalizedProfile)
        jobKeywords == extractTopKeywords(combinedJob, DefaultLimit)
        resumeKeywords == extractTopKeywords(resumeEvidence, DefaultLimit)
    IN  [normalizedJob |-> normalizedJob,
         normalizedProfile |-> normalizedProfile,
         combinedJob |-> combinedJob,
         resumeEvidence |-> resumeEvidence,
         jobKeywords |-> jobKeywords,
         resumeKeywords |-> resumeKeywords,
         keywordScore |-> computeKeywordStats(jobKeywords, resumeKeywords).keywordScore]

\* The response of the live path, { ...parsed, fit_score: finalScore, ... },
\* for the parsed MatchOutput of the collaborator.
LiveResponse(l, output) ==
    [fit_score |-> blendScore(clampScore(output.fit_score), l.keywordScore),
     highlights |-> Take(output.highlights, 6),
     gaps |-> Take(output.gaps, 6),
     verdict |-> Trim(output.verdict),
     llm_fit_score |-> clampScore(output.fit_score),
     keyword_overlap |-> MathRound(l.keywordScore.num, l.keywordScore.den)]

(***************************************************************************)
(* SpecMatch: one valid request to api/match, with or without API key, and *)
(* a collaborator that answers with a conforming MatchOutput or fails.     *)
(***************************************************************************)
\* title "Designer"; responsibilities none, "Build flows" or "Explain
\* benefits to staff"; mustHaves none, "rust" or "rust", "figma"; keywords
\* none or "remote".
MatchJobs ==
    {[title |-> <<68, 101, 115, 105, 103, 110, 101, 114>>,
      responsibilities |-> r, mustHaves |-> m, niceToHaves |-> <<>>, keywords |-> k,
      location |-> Undefined, employmentType |-> Undefined] :
        r \in {<<>>, <<<<66, 117, 105, 108, 100, 32, 102, 108, 111, 119, 115>>>>,
               <<<<69, 120, 112, 108, 97, 105, 110, 32, 98, 101, 110, 101, 102, 105, 116,
                   115, 32, 116, 111, 32, 115, 116, 97, 102, 102>>>>},
        m \in {<<>>, <<<<114, 117, 115, 116>>>>,
               <<<<114, 117, 115, 116>>, <<102, 105, 103, 109, 97>>>>},
        k \in {<<>>, <<<<114, 101, 109, 111, 116, 101>>>>}}

\* name "Al"; location absent or "Remote"; skills none, "rust" or "rust",
\* "figma"; no project or the project "Figma kit" with summary "Design".
MatchProfiles ==
    {[PlainProfile(<<65, 108>>) EXCEPT
         !.location = loc, !.skills = s, !.projects = p] :
        loc \in {Undefined, <<82, 101, 109, 111, 116, 101>>},
        s \in {<<>>, <<<<114, 117, 115, 116>>>>,
               <<<<114, 117, 115, 116>>, <<102, 105, 103, 109, 97>>>>},
        p \in {<<>>, <<[name |-> <<70, 105, 103, 109, 97, 32, 107, 105, 116>>,
                        summary |-> <<68, 101, 115, 105, 103, 110>>,
                        skills |-> <<>>, outcomes |-> <<>>]>>}}

\* What the collaborator returns: nothing usable, or a MatchOutput with
\* verdict " ok ".
MatchCompletions ==
    {[ok |-> FALSE]} \cup
    {[ok |-> TRUE, fit_score |-> Ratio(f, 1), highlights |-> <<>>, gaps |-> <<>>,
      verdict |-> <<32, 111, 107, 32>>] : f \in {0, 45, 100}}

MatchRequests ==
    [jobSpec : MatchJobs, candidateProfile : MatchProfiles, apiKey : {TRUE},
     completion : MatchCompletions]
    \cup
    [jobSpec : MatchJobs, candidateProfile : MatchProfiles, apiKey : {FALSE},
     completion : {[ok |-> FALSE]}]

InitMatch ==
    /\ pc = "start"
    /\ arg \in MatchRequests
    /\ parsed = <<>>
    /\ res = <<>>
    /\ res2 = <<>>
    /\ locals = <<>>
    /\ log = <<>>

\* if (!apiKey) return NextResponse.json(buildMockResponse(...))
MatchAnswerNoKey ==
    /\ pc = "start"
    /\ ~arg.apiKey
    /\ locals' = MatchLocals(arg)
    /\ res' = buildMockResponse(locals'.normalizedJob, locals'.normalizedProfile)
    /\ log' = <<"fallback">>
    /\ pc' = "done"
    /\ UNCHANGED <<arg, parsed, res2>>

\* The completion conforms: the blended response.
MatchAnswerLive ==
    /\ pc = "start"
    /\ arg.apiKey
    /\ arg.completion.ok
    /\ locals' = MatchLocals(arg)
    /\ parsed' = arg.completion
    /\ res' = LiveResponse(locals', arg.completion)
    /\ log' = <<"collaborator">>
    /\ pc' = "done"
    /\ UNCHANGED <<arg, res2>>

\* The completion fails: catch returns buildMockResponse(...).
MatchAnswerCatch ==
    /\ pc = "start"
    /\ arg.apiKey
    /\ ~arg.completion.ok
    /\ locals' = MatchLocals(arg)
    /\ res' = buildMockResponse(locals'.normalizedJob, locals'.normalizedProfile)
    /\ log' = <<"collaborator", "fallback">>
    /\ pc' = "done"
    /\ UNCHANGED <<arg, parsed, res2>>

NextMatch == MatchAnswerNoKey \/ MatchAnswerLive \/ MatchAnswerCatch

SpecMatch == InitMatch /\ [][NextMatch]_vars

\* The tokens of the entries of a list, as tokenize gives them.
ListTokens(list) == UNION {Elements(tokenize(list[i])) : i \in 1..Len(list)}

\* C27: a benefits phrase inside a responsibility does not cut the job text
\* short: combinedJob is the cleaned form of the whole joined text, and every
\* token of the must-haves, nice-to-haves and keywords is among the job
\* keywords handed to keyword matching.
C27_TruncateOnlyAtHeading ==
    pc = "done" =>
        LET job == locals.normalizedJob IN
        /\ locals.combinedJob =
               cleanResumeText(Join(<<job.title>> \o job.responsibilities \o job.mustHaves
                                       \o job.niceToHaves \o job.keywords, <<32>>))
        /\ ListTokens(job.mustHaves \o job.niceToHaves \o job.keywords)
               \subseteq Elements(locals.jobKeywords)

\* C28: keyword_overlap of every MatchOutput the handler returns is a whole
\* number in 0..100, the percent of computeKeywordStats for the job keywords
\* and the candidate keywords the answering path worked with.
C28_KeywordOverlapIsPercent ==
    pc = "done" =>
        /\ res.keyword_overlap \in 0..100
        /\ res.keyword_overlap =
               IF arg.apiKey /\ arg.completion.ok
               THEN computeKeywordStats(locals.jobKeywords, locals.resumeKeywords).percent
               ELSE computeKeywordStats(
                        extractTopKeywords(MockJobText(locals.normalizedJob), DefaultLimit),
                        extractTopKeywords(MockResumeText(locals.normalizedProfile),
                                           DefaultLimit)).percent

\* C30: for the same normalized job and profile, the keyword score behind
\* the fallback MatchOutput equals the keyword score the handler computes
\* for blending, and so do the scores the two would report.
C30_SameKeywordScoreOnEveryPath ==
    pc = "done" =>
        LET mock == MockKeywordScore(locals.normalizedJob, locals.normalizedProfile)
        IN  /\ mock.num * locals.keywordScore.den = locals.keywordScore.num * mock.den
            /\ buildMockResponse(locals.normalizedJob, locals.normalizedProfile).fit_score
                   = clampScore(locals.keywordScore)

=============================================================================
